---- MODULE Spec2Model ----
(***************************************************************************)
(* A model of the thread pipeline of g-threader: ThreadParser              *)
(* (groupEmailsByThread, filterThreads, extractEmailAddresses) and         *)
(* ThreadAnalyzer (analyzeThread, analyzeThreads, parseAnalysisResponse).  *)
(*                                                                         *)
(* Strings that the code inspects character by character (headers,         *)
(* subjects, bodies, queries) are sequences of one-character strings.      *)
(* Opaque strings (ids, date strings) are TLA+ strings.                    *)
(***************************************************************************)
EXTENDS Integers, Sequences, FiniteSets, TLC

VARIABLES
    pc,          \* position of the running operation
    emails,      \* input of groupEmailsByThread
    threads,     \* its return value
    fargs,       \* arguments of filterThreads (query, minMessages, dateRange, participants)
    filtered,    \* return value of filterThreads
    aThreads,    \* analyzeThreads: the threads argument
    concurrency, \* analyzeThreads: the concurrency argument
    i,           \* analyzeThreads: the loop variable i
    calls,       \* analyzeThreads: the analyzeThread promises of the current batch
    results,     \* analyzeThreads: the results array
    returned,    \* analyzeThreads: the returned array
    outOfOrder,  \* history: a call settled while an earlier call of its batch was in flight
    outcomes,    \* history: how the completion call of each thread settled, in thread order
    allEmails,        \* api: the emails of the export file named by the request
    selectedThreads,  \* api: req.body.selectedThreads
    OPENAI_API_KEY,   \* generateCourtDocument: TRUE when process.env.OPENAI_API_KEY is set
    documentContent,  \* generateCourtDocument: the Markdown text
    responseText,     \* parseAnalysisResponse: the analysisText argument
    analysisResult,   \* parseAnalysisResponse: the returned object
    known,            \* the values a synthetic response text was built from
    htmlContent,      \* generateCourtDocument: the HTML text
    clock,            \* server: the time that Date.now() and new Date() read
    files,            \* server: the files of the exports directory, path to content
    requests          \* server: the preview and generate requests being handled

docVars == <<allEmails, selectedThreads, OPENAI_API_KEY, documentContent>>
parseVars == <<responseText, analysisResult, known>>
serverVars == <<htmlContent, clock, files, requests>>

vars == <<pc, emails, threads, fargs, filtered,
          aThreads, concurrency, i, calls, results, returned, outOfOrder,
          outcomes, docVars, parseVars, serverVars>>

(***************************************************************************)
(* Bounds of the model.                                                    *)
(***************************************************************************)
MaxEmails == 3
MaxFilterEmails == 3
MaxAnalyzed == 3
MaxConcurrency == 2
MaxDocEmails == 3
MaxPieces == 4
MaxItems == 2
MaxScoreLen == 3
MaxLineLen == 4
MaxWords == 3
MaxBodyLines == 2
MaxClock == 2

(***************************************************************************)
(* Generic helpers on sequences.                                           *)
(***************************************************************************)
Range(s) == { s[k] : k \in 1..Len(s) }

Count(s, x) == Cardinality({ k \in 1..Len(s) : s[k] = x })

SeqsUpTo(S, n) == UNION { [1..k -> S] : k \in 0..n }

Min2(a, b) == IF a < b THEN a ELSE b

\* s contains t as a contiguous substring (String.prototype.includes)
Includes(s, t) ==
    \E k \in 0..(Len(s) - Len(t)) : \A j \in 1..Len(t) : s[k + j] = t[j]

(***************************************************************************)
(* Characters.                                                             *)
(***************************************************************************)
UpperChars == {"A", "B", "J", "R", "X"}
WordChars ==
    {"a", "b", "c", "e", "h", "j", "n", "o", "p", "q", "r", "t", "x", "1", "_"}
    \cup UpperChars
WhiteChars == {" ", "\t", "\n"}

\* String.prototype.toLowerCase, per character
LowerChar(c) ==
    CASE c = "A" -> "a"
      [] c = "X" -> "x"
      [] c = "Positive" -> "positive"
      [] c = "NEGATIVE" -> "negative"
      [] c = "B" -> "b"
      [] c = "J" -> "j"
      [] c = "R" -> "r"
      [] c = "E" -> "e"
      [] c = "G" -> "g"
      [] c = "I" -> "i"
      [] c = "L" -> "l"
      [] c = "N" -> "n"
      [] c = "O" -> "o"
      [] c = "P" -> "p"
      [] c = "S" -> "s"
      [] c = "T" -> "t"
      [] c = "U" -> "u"
      [] c = "V" -> "v"
      [] OTHER -> c

toLowerCase(s) == [k \in 1..Len(s) |-> LowerChar(s[k])]

(***************************************************************************)
(* Date.  new Date(str).getTime() yields a number of milliseconds or NaN.  *)
(* Different strings can denote the same instant; strings that do not      *)
(* parse yield NaN.  Times are given in hours since 2024-01-01T00:00Z.     *)
(***************************************************************************)
D1iso == "2024-01-01T10:00:00Z"
D1rfc == "Mon, 01 Jan 2024 10:00:00 +0000"
D2iso == "2024-01-02T10:00:00Z"
DEmpty == ""

ValidDates == {D1iso, D1rfc, D2iso}

isNaNDate(d) == d \notin ValidDates

getTime(d) ==
    CASE d = D1iso -> 10
      [] d = D1rfc -> 10
      [] d = D2iso -> 34
      [] OTHER -> 0   \* NaN: never used as a number, see isNaNDate

\* a sort key: a number or NaN
DateKey(d) == [nan |-> isNaNDate(d), v |-> getTime(d)]
NumKey(n) == [nan |-> FALSE, v |-> n]
NegKey(k) == [nan |-> k.nan, v |-> 0 - k.v]

(***************************************************************************)
(* Array.prototype.sort(comparefn) with comparefn(a, b) = key(a) - key(b), *)
(* as the runtime (V8, arrays shorter than 64) performs it: the result of  *)
(* comparefn is NaN when a key is NaN, and a NaN result counts as +0; the  *)
(* array is sorted by CountAndMakeRun followed by a binary insertion sort. *)
(* With a consistent comparator this is a stable sort; with NaN keys the   *)
(* comparator is inconsistent and the order is whatever the algorithm      *)
(* leaves.  SortOrder returns the permutation of indices.                  *)
(***************************************************************************)
SortCompare(keys, x, y) ==
    IF keys[x].nan \/ keys[y].nan THEN 0 ELSE keys[x].v - keys[y].v

RECURSIVE RunLength(_, _, _, _)
\* idx: index (1-based) of the next element to look at; the run is a[1..idx-1]
RunLength(keys, a, idx, desc) ==
    IF idx > Len(a) THEN Len(a)
    ELSE LET order == SortCompare(keys, a[idx], a[idx - 1])
         IN IF (desc /\ order >= 0) \/ (~desc /\ order < 0)
            THEN idx - 1
            ELSE RunLength(keys, a, idx + 1, desc)

Reverse(s) == [k \in 1..Len(s) |-> s[Len(s) + 1 - k]]

CountAndMakeRun(keys, a) ==
    LET desc == SortCompare(keys, a[2], a[1]) < 0
        n == RunLength(keys, a, 3, desc)
    IN [run |-> n,
        arr |-> IF desc THEN Reverse(SubSeq(a, 1, n)) \o SubSeq(a, n + 1, Len(a))
                ELSE a]

RECURSIVE BinarySearch(_, _, _, _, _)
\* 0-based left/right as in the runtime; returns the 0-based insertion point
BinarySearch(keys, a, pivot, left, right) ==
    IF left >= right THEN left
    ELSE LET mid == left + ((right - left) \div 2)
         IN IF SortCompare(keys, pivot, a[mid + 1]) < 0
            THEN BinarySearch(keys, a, pivot, left, mid)
            ELSE BinarySearch(keys, a, pivot, mid + 1, right)

RECURSIVE BinaryInsertionSort(_, _, _)
\* start: 1-based index of the first element not yet inserted
BinaryInsertionSort(keys, a, start) ==
    IF start > Len(a) THEN a
    ELSE LET pivot == a[start]
             left == BinarySearch(keys, a, pivot, 0, start - 1)
             b == SubSeq(a, 1, left) \o <<pivot>> \o SubSeq(a, left + 1, start - 1)
                  \o SubSeq(a, start + 1, Len(a))
         IN BinaryInsertionSort(keys, b, start + 1)

SortOrder(keys) ==
    LET ident == [k \in 1..Len(keys) |-> k]
    IN IF Len(keys) < 2 THEN ident
       ELSE LET r == CountAndMakeRun(keys, ident)
            IN BinaryInsertionSort(keys, r.arr, r.run + 1)

SortBy(s, keys) == LET p == SortOrder(keys) IN [k \in 1..Len(s) |-> s[p[k]]]

(***************************************************************************)
(* Strings of the model, character by character.                           *)
(***************************************************************************)
AddrA == <<"a", "@", "x", ".", "c", "o">>                        \* a@x.co
AddrB == <<"b", "@", "x", ".", "c", "o">>                        \* b@x.co
AddrC == <<"c", "@", "x", ".", "c", "o">>                        \* c@x.co
AddrAUpper == <<"A", "@", "x", ".", "c", "o">>                   \* A@x.co
HdrBC == AddrB \o <<",", " ">> \o AddrC                          \* b@x.co, c@x.co
HdrNamedB == <<"B", "o", "b", " ", "<">> \o AddrB \o <<">">>     \* Bob <b@x.co>
HdrNoDot == <<"a", "@", "x">>                                    \* a@x
HdrDashed == <<"a", "@", "x", ".", "c", "-", "b", "@", "x", ".", "c", "o", ".">>  \* a@x.c-b@x.co.
HdrName == <<"b", "o", "b">>                                     \* bob
Empty == <<>>

SubjReport == <<"R", "e", "p", "o", "r", "t">>                   \* Report
SubjRe == <<"R", "e">>                                           \* Re
BodyQ == <<"q", "1", " ", "j", "o", "b">>                        \* q1 job
BodyJohn == <<"J", "o", "h", "n">>                               \* John

(***************************************************************************)
(* EmailData (src/src/types/index.ts).  body.plain is optional.  The       *)
(* records of an export file are read with readJson and are not checked    *)
(* against the type: a record may come without its body object.            *)
(***************************************************************************)
Plain(s) == [undefined |-> FALSE, hasPlain |-> TRUE, plain |-> s]
NoPlain == [undefined |-> FALSE, hasPlain |-> FALSE, plain |-> <<>>]
NoBody == [undefined |-> TRUE, hasPlain |-> FALSE, plain |-> <<>>]

EmailData(id, threadId, subject, from, to, date, body) ==
    [id |-> id, threadId |-> threadId, subject |-> subject, from |-> from,
     to |-> to, date |-> date, body |-> body, attachments |-> <<>>]

Attachment(filename, mimeType) == [filename |-> filename, mimeType |-> mimeType]
WithAttachments(email, attachments) == [email EXCEPT !.attachments = attachments]

(***************************************************************************)
(* ThreadParser.extractEmailAddresses: all matches of                      *)
(*     /[\w.-]+@[\w.-]+\.\w+/g                                             *)
(* from left to right.  A match at position i is the maximal run of        *)
(* [\w.-] from i, an "@", and then, inside the maximal run R of [\w.-]     *)
(* that follows, the greedy split X "." W: the last "." of R that has a    *)
(* character before it in R and a \w after it, followed by the maximal run *)
(* of \w.                                                                  *)
(***************************************************************************)
IsWordChar(c) == c \in WordChars
IsLocalChar(c) == c \in WordChars \cup {".", "-"}

RECURSIVE LocalRunEnd(_, _)
\* last index of the maximal run of [\w.-] starting at i (i - 1 when empty)
LocalRunEnd(s, k) ==
    IF k <= Len(s) /\ IsLocalChar(s[k]) THEN LocalRunEnd(s, k + 1) ELSE k - 1

RECURSIVE WordRunEnd(_, _)
WordRunEnd(s, k) ==
    IF k <= Len(s) /\ IsWordChar(s[k]) THEN WordRunEnd(s, k + 1) ELSE k - 1

\* the index of the last character of the match starting at k, 0 when none
MatchEnd(s, k) ==
    LET le == LocalRunEnd(s, k)
        ds == le + 2
        de == LocalRunEnd(s, ds)
        dots == { d \in (ds + 1)..(de - 1) : s[d] = "." /\ IsWordChar(s[d + 1]) }
    IN IF le < k \/ le + 1 > Len(s) THEN 0
       ELSE IF s[le + 1] # "@" \/ dots = {} THEN 0
       ELSE WordRunEnd(s, (CHOOSE d \in dots : \A e \in dots : e <= d) + 1)

RECURSIVE MatchAll(_, _)
MatchAll(s, k) ==
    IF k > Len(s) THEN <<>>
    ELSE LET e == MatchEnd(s, k)
         IN IF e > 0 THEN <<SubSeq(s, k, e)>> \o MatchAll(s, e + 1)
            ELSE MatchAll(s, k + 1)

extractEmailAddresses(input) ==
    IF input = <<>> THEN <<>> ELSE MatchAll(input, 1)

(***************************************************************************)
(* ThreadParser.groupEmailsByThread.                                       *)
(***************************************************************************)
RECURSIVE MapKeys(_, _)
\* the keys of threadMap in insertion order: threadIds by first occurrence
MapKeys(es, seen) ==
    IF es = <<>> THEN seen
    ELSE MapKeys(Tail(es),
                 IF Head(es).threadId \in Range(seen) THEN seen
                 ELSE Append(seen, Head(es).threadId))

\* a grouping that keeps one record per message id
MapGetDistinctIds(es, threadId) ==
    LET own == SelectSeq(es, LAMBDA e : e.threadId = threadId)
    IN IF own = <<>> THEN <<>> ELSE <<own[1]>> \o
          SelectSeq(Tail(own), LAMBDA e : e.id # own[1].id)

\* threadMap.get(threadId): the emails pushed under the key, in input order
MapGet(es, threadId) == SelectSeq(es, LAMBDA e : e.threadId = threadId)

RECURSIVE SetAddAll(_, _)
\* Set.prototype.add for each element of xs; the Set keeps insertion order
SetAddAll(set, xs) ==
    IF xs = <<>> THEN set
    ELSE SetAddAll(IF Head(xs) \in Range(set) THEN set ELSE Append(set, Head(xs)),
                   Tail(xs))

RECURSIVE ParticipantsFromOnly(_, _)
\* participants taken from the from field alone
ParticipantsFromOnly(messages, set) ==
    IF messages = <<>> THEN set
    ELSE ParticipantsFromOnly(Tail(messages),
             SetAddAll(set, extractEmailAddresses(Head(messages).from)))

RECURSIVE Participants(_, _)
Participants(messages, set) ==
    IF messages = <<>> THEN set
    ELSE Participants(Tail(messages),
             SetAddAll(SetAddAll(set, extractEmailAddresses(Head(messages).from)),
                       extractEmailAddresses(Head(messages).to)))

\* messages left in input order
MessagesUnsorted(messages) == messages

SortMessages(messages) ==
    SortBy(messages, [k \in 1..Len(messages) |-> DateKey(messages[k].date)])

MakeThread(threadId, unsorted) ==
    LET messages == SortMessages(unsorted)
    IN [threadId |-> threadId,
        subject |-> messages[1].subject,
        participants |-> Participants(messages, <<>>),
        startDate |-> messages[1].date,
        endDate |-> messages[Len(messages)].date,
        messageCount |-> Len(messages),
        messages |-> messages]

\* newest first: comparefn(a, b) = time(b.endDate) - time(a.endDate)
SortThreads(ts) ==
    SortBy(ts, [k \in 1..Len(ts) |-> NegKey(DateKey(ts[k].endDate))])

groupEmailsByThread(es) ==
    LET keys == MapKeys(es, <<>>)
    IN SortThreads([k \in 1..Len(keys) |-> MakeThread(keys[k], MapGet(es, keys[k]))])

(***************************************************************************)
(* Inputs of groupEmailsByThread.  The code never looks inside a threadId, *)
(* so the inputs name the threads t1, t2, t3 in the order of their first   *)
(* occurrence.  Both kinds of record carry the same id.                    *)
(***************************************************************************)
ThreadIds == <<"t1", "t2", "t3">>
GroupDates == {DEmpty, D1iso, D1rfc, D2iso}

Variant(v, threadId, date) ==
    IF v = 1
    THEN EmailData("m1", threadId, SubjReport, AddrA, HdrBC, date, Plain(BodyQ))
    ELSE EmailData("m1", threadId, SubjRe, HdrNamedB, AddrA, date, NoPlain)

EmailPool ==
    { Variant(v, ThreadIds[t], d) : v \in 1..2, t \in 1..Len(ThreadIds), d \in GroupDates }

FirstOccurrenceOrder(es) ==
    LET keys == MapKeys(es, <<>>)
    IN \A k \in 1..Len(keys) : keys[k] = ThreadIds[k]

GroupInputs == { es \in SeqsUpTo(EmailPool, MaxEmails) : FirstOccurrenceOrder(es) }

NoArgs == [query |-> <<>>, minMessages |-> 1, hasRange |-> FALSE,
           from |-> DEmpty, to |-> DEmpty, hasParticipants |-> FALSE,
           participants |-> <<>>]

Idle ==
    /\ fargs = NoArgs
    /\ filtered = <<>>
    /\ aThreads = <<>>
    /\ concurrency = 0
    /\ i = 0
    /\ calls = <<>>
    /\ results = <<>>
    /\ returned = <<>>
    /\ outOfOrder = FALSE
    /\ outcomes = <<>>
    /\ allEmails = <<>>
    /\ selectedThreads = <<>>
    /\ OPENAI_API_KEY = FALSE
    /\ documentContent = <<>>
    /\ htmlContent = <<>>
    /\ clock = 0
    /\ files = <<>>
    /\ requests = <<>>
    /\ responseText = <<>>
    /\ analysisResult = <<>>
    /\ known = <<>>

InitGroup ==
    /\ pc = "start"
    /\ emails \in GroupInputs
    /\ threads = <<>>
    /\ Idle

\* const threads = ThreadParser.groupEmailsByThread(emails)
GroupEmails ==
    /\ pc = "start"
    /\ threads' = groupEmailsByThread(emails)
    /\ pc' = "grouped"
    /\ UNCHANGED <<emails, fargs, filtered, aThreads, concurrency, i, calls,
                   results, returned, outOfOrder, outcomes, docVars, parseVars, serverVars>>

NextGroup == GroupEmails

SpecGroup == InitGroup /\ [][NextGroup]_vars

(***************************************************************************)
(* Claims about groupEmailsByThread.                                       *)
(***************************************************************************)
AllDatesParse == \A j \in 1..Len(emails) : ~isNaNDate(emails[j].date)

\* the input records of a thread, in input order
InputOf(threadId) == SelectSeq(emails, LAMBDA e : e.threadId = threadId)

Perms(n) == { p \in [1..n -> 1..n] : \A a, b \in 1..n : a # b => p[a] # p[b] }

\* C1: every input record lies in exactly one output thread, the one with its
\* threadId; nothing is dropped, duplicated or de-duplicated (also among
\* records that share an id), the output threadIds are pairwise distinct, and
\* messageCount = messages.length = the number of input records of the thread.
C1_GroupingPreservesRecords ==
    pc = "grouped" =>
        /\ \A a, b \in 1..Len(threads) :
              a # b => threads[a].threadId # threads[b].threadId
        /\ \A j \in 1..Len(emails) :
              \E k \in 1..Len(threads) : threads[k].threadId = emails[j].threadId
        /\ \A k \in 1..Len(threads) :
              LET t == threads[k]
              IN /\ t.messageCount = Len(t.messages)
                 /\ t.messageCount =
                        Cardinality({ j \in 1..Len(emails) :
                                        emails[j].threadId = t.threadId })
                 /\ \A j \in 1..Len(t.messages) :
                        /\ t.messages[j].threadId = t.threadId
                        /\ Count(t.messages, t.messages[j])
                               = Count(emails, t.messages[j])

C1_Witness ==
    /\ pc = "grouped"
    /\ Len(threads) >= 2
    /\ \E k \in 1..Len(threads) :
          /\ threads[k].messageCount >= 2
          /\ threads[k].messages[1] = threads[k].messages[2]

\* C2: when all dates parse, the messages of every thread are in ascending
\* order of time, messages of equal time in input order; startDate and endDate
\* are the dates of the first and last message, and subject is the subject of
\* the chronologically first message.
C2_MessagesSortedStable ==
    (pc = "grouped" /\ AllDatesParse) =>
        \A k \in 1..Len(threads) :
            LET t == threads[k]
                inp == InputOf(t.threadId)
                n == Len(inp)
                first == CHOOSE a \in 1..n :
                            \A b \in 1..n :
                                \/ getTime(inp[a].date) < getTime(inp[b].date)
                                \/ (getTime(inp[a].date) = getTime(inp[b].date) /\ a <= b)
            IN /\ Len(t.messages) = n
               /\ \E p \in Perms(n) :
                     /\ \A a \in 1..n : t.messages[a] = inp[p[a]]
                     /\ \A a, b \in 1..n :
                           a < b =>
                             \/ getTime(inp[p[a]].date) < getTime(inp[p[b]].date)
                             \/ /\ getTime(inp[p[a]].date) = getTime(inp[p[b]].date)
                                /\ p[a] < p[b]
               /\ t.startDate = t.messages[1].date
               /\ t.endDate = t.messages[n].date
               /\ t.subject = inp[first].subject

C2_Witness ==
    /\ pc = "grouped"
    /\ AllDatesParse
    /\ \E k \in 1..Len(threads) :
          LET t == threads[k]
          IN /\ t.messages # InputOf(t.threadId)
             /\ t.subject # InputOf(t.threadId)[1].subject
             /\ \E a, b \in 1..Len(t.messages) :
                   /\ a < b
                   /\ t.messages[a].date # t.messages[b].date
                   /\ getTime(t.messages[a].date) = getTime(t.messages[b].date)

\* position of the first input record of a thread
FirstIndex(threadId) ==
    CHOOSE j \in 1..Len(emails) :
        /\ emails[j].threadId = threadId
        /\ \A h \in 1..(j - 1) : emails[h].threadId # threadId

\* C3: the returned threads are in descending order of endDate: a thread whose
\* endDate is later than another's comes before it, and threads of equal
\* endDate are in the order in which their threadIds first occur in the input.
C3_ThreadsNewestFirst ==
    pc = "grouped" =>
        \A a, b \in 1..Len(threads) :
            (~isNaNDate(threads[a].endDate) /\ ~isNaNDate(threads[b].endDate)) =>
                /\ getTime(threads[a].endDate) > getTime(threads[b].endDate) => a < b
                /\ (/\ getTime(threads[a].endDate) = getTime(threads[b].endDate)
                    /\ FirstIndex(threads[a].threadId) < FirstIndex(threads[b].threadId))
                       => a < b

\* C3 restricted to inputs in which every date parses
C3_ParseableDates == AllDatesParse => C3_ThreadsNewestFirst

(***************************************************************************)
(* Inputs for the participants of a thread: the from/to headers vary.      *)
(***************************************************************************)
HeaderPairs ==
    << <<AddrA, HdrBC>>, <<HdrNamedB, AddrA>>, <<Empty, HdrDashed>>,
       <<HdrNoDot, HdrName>>, <<AddrAUpper, AddrC>> >>

\* the messages with an odd pair of headers are the later ones
HeaderPool ==
    { EmailData("m1", ThreadIds[t], SubjRe, HeaderPairs[h][1], HeaderPairs[h][2],
                IF h % 2 = 1 THEN D2iso ELSE D1iso, NoPlain) :
        t \in 1..2, h \in 1..Len(HeaderPairs) }

HeaderInputs == { es \in SeqsUpTo(HeaderPool, MaxEmails) : FirstOccurrenceOrder(es) }

InitParticipants ==
    /\ pc = "start"
    /\ emails \in HeaderInputs
    /\ threads = <<>>
    /\ Idle

SpecParticipants == InitParticipants /\ [][NextGroup]_vars

\* the thread with the given id in a list of threads
ThreadOf(ts, threadId) == ts[CHOOSE k \in 1..Len(ts) : ts[k].threadId = threadId]

\* C4: the participants of a thread hold no duplicates and are, as a set, the
\* addresses extracted from the from and to fields of the thread's messages;
\* every permutation of the input gives each thread the same set.
C4_ParticipantsAreTheUnion ==
    pc = "grouped" =>
        /\ \A k \in 1..Len(threads) :
              LET t == threads[k]
                  inp == InputOf(t.threadId)
              IN /\ \A a, b \in 1..Len(t.participants) :
                        a # b => t.participants[a] # t.participants[b]
                 /\ Range(t.participants) =
                        UNION { Range(extractEmailAddresses(inp[j].from))
                                  \cup Range(extractEmailAddresses(inp[j].to)) :
                                j \in 1..Len(inp) }
        /\ \A p \in Perms(Len(emails)) :
              LET other == groupEmailsByThread([j \in 1..Len(emails) |-> emails[p[j]]])
              IN /\ Len(other) = Len(threads)
                 /\ \A k \in 1..Len(threads) :
                       Range(ThreadOf(other, threads[k].threadId).participants)
                           = Range(threads[k].participants)

C4_Witness ==
    /\ pc = "grouped"
    /\ \E k \in 1..Len(threads) :
          LET t == threads[k]
          IN /\ t.messageCount >= 2
             /\ Len(t.participants) >= 3
             /\ \E a, b \in 1..t.messageCount :
                   /\ a # b
                   /\ Range(extractEmailAddresses(t.messages[a].from))
                        \cap Range(extractEmailAddresses(t.messages[b].to)) # {}

(***************************************************************************)
(* ThreadParser.filterThreads(threads, query, minMessages, dateRange,      *)
(* participants).  fargs holds the arguments: hasRange tells whether       *)
(* dateRange is passed, from/to are its fields ("" when absent),           *)
(* hasParticipants tells whether participants is passed.                   *)
(***************************************************************************)
RECURSIVE SplitWhitespace(_, _)
\* String.prototype.split(/\s+/): cur is the piece being read
SplitWhitespace(s, cur) ==
    IF s = <<>> THEN <<cur>>
    ELSE IF Head(s) \in WhiteChars
         THEN IF Len(s) >= 2 /\ s[2] \in WhiteChars
              THEN SplitWhitespace(Tail(s), cur)
              ELSE <<cur>> \o SplitWhitespace(Tail(s), <<>>)
         ELSE SplitWhitespace(Tail(s), Append(cur, Head(s)))

\* query.toLowerCase().split(/\s+/).filter(term => term.length > 0)
QueryTerms(query) ==
    SelectSeq(SplitWhitespace(toLowerCase(query), <<>>), LAMBDA t : Len(t) > 0)

\* new Date(a) < new Date(b): false when either is an Invalid Date
DateLess(a, b) == ~isNaNDate(a) /\ ~isNaNDate(b) /\ getTime(a) < getTime(b)

\* `${subject} ${from} ${to} ${body.plain || ''}`.toLowerCase()
MessageText(message) ==
    toLowerCase(message.subject \o <<" ">> \o message.from \o <<" ">> \o message.to
                \o <<" ">> \o (IF message.body.hasPlain THEN message.body.plain ELSE <<>>))

\* a match that looks for each term anywhere in the thread
SomeMessagePerTerm(thread, queryTerms) ==
    \A t \in 1..Len(queryTerms) :
        \E m \in 1..Len(thread.messages) :
            Includes(MessageText(thread.messages[m]), queryTerms[t])

\* thread.messages.some(message => queryTerms.every(term => text.includes(term)))
SomeMessageMatchesAll(thread, queryTerms) ==
    \E m \in 1..Len(thread.messages) :
        \A t \in 1..Len(queryTerms) :
            Includes(MessageText(thread.messages[m]), queryTerms[t])

\* participants.some(p => thread.participants.some(tp => tp.toLowerCase().includes(p.toLowerCase())))
HasParticipant(thread, participants) ==
    \E p \in 1..Len(participants) :
        \E tp \in 1..Len(thread.participants) :
            Includes(toLowerCase(thread.participants[tp]), toLowerCase(participants[p]))

\* the callback of threads.filter
KeepThread(thread, args) ==
    LET queryTerms == QueryTerms(args.query)
    IN IF thread.messageCount < args.minMessages THEN FALSE
       ELSE IF args.hasRange /\ args.from # "" /\ DateLess(thread.endDate, args.from)
            THEN FALSE
       ELSE IF args.hasRange /\ args.to # "" /\ DateLess(args.to, thread.startDate)
            THEN FALSE
       ELSE IF /\ args.hasParticipants
               /\ Len(args.participants) > 0
               /\ ~HasParticipant(thread, args.participants)
            THEN FALSE
       ELSE IF Len(queryTerms) > 0 THEN SomeMessageMatchesAll(thread, queryTerms)
       ELSE TRUE

\* a filter that returns the survivors oldest first
FilterAndReverse(ts, args) == Reverse(SelectSeq(ts, LAMBDA t : KeepThread(t, args)))

filterThreads(ts, args) == SelectSeq(ts, LAMBDA t : KeepThread(t, args))

(***************************************************************************)
(* Inputs of filterThreads: the threads grouped from a few emails, and a   *)
(* product of arguments.                                                   *)
(***************************************************************************)
QReportJohn == <<"R", "e", "p", "o", "r", "t", " ", " ", "j", "o", "h", "n">>  \* "Report  john"
QJohn == <<" ", "J", "o", "h", "n", "\t">>                                    \* " John\t"
QBlank == <<" ", "\t">>                                                       \* " \t"
Queries == {Empty, QBlank, QJohn, QReportJohn}

PartAUpper == <<"A", "@", "X">>                                               \* A@X
PartBAt == <<"b", "@">>                                                       \* b@
PartNone == <<"q", "q">>                                                      \* qq

FilterPool ==
    UNION { { EmailData("m1", ThreadIds[t], SubjReport, AddrA, AddrB, D1iso, NoPlain),
              EmailData("m2", ThreadIds[t], SubjRe, AddrAUpper, AddrA, D2iso, Plain(BodyJohn)),
              EmailData("m3", ThreadIds[t], SubjReport, AddrB, AddrC, D2iso, Plain(BodyJohn)),
              EmailData("m4", ThreadIds[t], SubjReport, AddrA, AddrB, DEmpty, NoPlain) } :
            t \in 1..Len(ThreadIds) }

FilterInputs ==
    { es \in SeqsUpTo(FilterPool, MaxFilterEmails) : FirstOccurrenceOrder(es) }

DateRanges ==
    { [hasRange |-> FALSE, from |-> "", to |-> ""],
      [hasRange |-> TRUE, from |-> D2iso, to |-> ""],
      [hasRange |-> TRUE, from |-> "", to |-> D1rfc],
      [hasRange |-> TRUE, from |-> D1rfc, to |-> D2iso] }

ParticipantArgs ==
    { [hasParticipants |-> FALSE, participants |-> <<>>],
      [hasParticipants |-> TRUE, participants |-> <<>>],
      [hasParticipants |-> TRUE, participants |-> <<PartAUpper>>],
      [hasParticipants |-> TRUE, participants |-> <<PartNone, PartBAt>>] }

FilterArgs ==
    { [query |-> q, minMessages |-> n, hasRange |-> r.hasRange, from |-> r.from,
       to |-> r.to, hasParticipants |-> p.hasParticipants,
       participants |-> p.participants] :
        q \in Queries, n \in 1..2, r \in DateRanges, p \in ParticipantArgs }

InitFilter ==
    /\ pc = "start"
    /\ emails \in FilterInputs
    /\ threads = <<>>
    /\ Idle

\* ThreadParser.filterThreads(threads, query, minMessages, dateRange, participants)
FilterThreads ==
    /\ pc = "grouped"
    /\ \E args \in FilterArgs :
          /\ fargs' = args
          /\ filtered' = filterThreads(threads, args)
    /\ pc' = "filtered"
    /\ UNCHANGED <<emails, threads, aThreads, concurrency, i, calls, results, returned,
                   outOfOrder, outcomes, docVars, parseVars, serverVars>>

NextFilter == GroupEmails \/ FilterThreads

SpecFilter == InitFilter /\ [][NextFilter]_vars

(***************************************************************************)
(* Claims about filterThreads.                                             *)
(***************************************************************************)
Retained(thread) == \E j \in 1..Len(filtered) : filtered[j] = thread

\* the order of dates the design documents: a date that does not parse
\* counts as the lowest value
TimeOrLowest(d) == IF isNaNDate(d) THEN 0 - 1 ELSE getTime(d)
DateAtLeast(a, b) == TimeOrLowest(a) >= TimeOrLowest(b)
DateAtMost(a, b) == TimeOrLowest(a) =< TimeOrLowest(b)

\* the term occurs in one of the searchable fields of the message
ContainsInFields(message, term) ==
    \/ Includes(toLowerCase(message.subject), term)
    \/ Includes(toLowerCase(message.from), term)
    \/ Includes(toLowerCase(message.to), term)
    \/ (message.body.hasPlain /\ Includes(toLowerCase(message.body.plain), term))

\* one message of the thread contains every term
QueryRule(thread, terms) ==
    terms # <<>> =>
        \E m \in 1..Len(thread.messages) :
            \A t \in 1..Len(terms) : ContainsInFields(thread.messages[m], terms[t])

ParticipantRule(thread, args) ==
    (args.hasParticipants /\ args.participants # <<>>) =>
        \E tp \in Range(thread.participants), p \in Range(args.participants) :
            Includes(toLowerCase(tp), toLowerCase(p))

\* C5: a thread is retained if and only if messageCount >= minMessages, and
\* endDate >= dateRange.from when from is given, and startDate <= dateRange.to
\* when to is given, and some participant contains a given participant string
\* (ignoring case) when participants is not empty, and the query rule holds.
C5_RetainedIffAllRules ==
    pc = "filtered" =>
        \A k \in 1..Len(threads) :
            LET t == threads[k]
            IN Retained(t) <=>
                 /\ t.messageCount >= fargs.minMessages
                 /\ (fargs.hasRange /\ fargs.from # "") => DateAtLeast(t.endDate, fargs.from)
                 /\ (fargs.hasRange /\ fargs.to # "") => DateAtMost(t.startDate, fargs.to)
                 /\ ParticipantRule(t, fargs)
                 /\ QueryRule(t, QueryTerms(fargs.query))

\* C5 restricted to inputs in which every date parses
C5_ParseableDates == AllDatesParse => C5_RetainedIffAllRules

NoOtherRule(args) ==
    args.minMessages =< 1 /\ ~args.hasRange /\ ~args.hasParticipants

\* C6: with at least one query term, every retained thread has a single
\* message that contains all the terms in its lower-cased subject, from, to or
\* plain body; with no term (an empty or blank query) no thread is excluded
\* on content: whatever any query retains is retained, and with no other rule
\* in force every thread is.
C6_AllTermsInOneMessage ==
    pc = "filtered" =>
        LET terms == QueryTerms(fargs.query)
        IN /\ terms # <<>> =>
                \A j \in 1..Len(filtered) : QueryRule(filtered[j], terms)
           /\ terms = <<>> =>
                /\ \A q \in Queries :
                      Range(filterThreads(threads, [fargs EXCEPT !.query = q]))
                          \subseteq Range(filtered)
                /\ NoOtherRule(fargs) => filtered = threads

\* every term occurs in the thread, but in no single message
C6_Witness ==
    /\ pc = "filtered"
    /\ NoOtherRule(fargs)
    /\ Len(QueryTerms(fargs.query)) >= 2
    /\ \E k \in 1..Len(threads) :
          /\ ~Retained(threads[k])
          /\ \A t \in Range(QueryTerms(fargs.query)) :
                \E m \in Range(threads[k].messages) : ContainsInFields(m, t)
    /\ \E k \in 1..Len(threads) : Retained(threads[k])

\* C7: the returned list is a subsequence of the input list: the returned
\* threads are input threads, unchanged and in their input order.
C7_FilterIsSubsequence ==
    pc = "filtered" =>
        \E f \in [1..Len(filtered) -> 1..Len(threads)] :
            /\ \A j \in 1..Len(filtered) : filtered[j] = threads[f[j]]
            /\ \A a, b \in 1..Len(filtered) : a < b => f[a] < f[b]

C7_Witness ==
    /\ pc = "filtered"
    /\ Len(threads) = 3
    /\ Len(filtered) = 2
    /\ filtered[1] = threads[1]
    /\ filtered[2] = threads[3]

(***************************************************************************)
(* ThreadAnalyzer.parseAnalysisResponse.  A response text is a sequence of *)
(* atoms: the section labels, single characters (blank, newline, comma,    *)
(* hyphen, digits) and whole words.                                        *)
(***************************************************************************)
LSummary == "SUMMARY:"
LTopics == "TOPICS:"
LRelevance == "RELEVANCE_SCORE:"
LSentiment == "SENTIMENT:"
LInsights == "KEY_INSIGHTS:"

RECURSIVE IndexFrom(_, _, _)
\* the first index >= k at which atom x occurs in s, 0 when there is none
IndexFrom(s, x, k) ==
    IF k > Len(s) THEN 0
    ELSE IF s[k] = x THEN k ELSE IndexFrom(s, x, k + 1)

\* a match that succeeds without the label and captures the whole text
SectionMatchAnywhere(text, label, next) == [matched |-> TRUE, capture |-> text]

\* analysisText.match(/LABEL(.*?)(?:NEXT|$)/s): the lazy capture runs from the
\* first LABEL to the first NEXT after it, or to the end of the text
SectionMatch(text, label, next) ==
    LET at == IndexFrom(text, label, 1)
        stop == IndexFrom(text, next, at + 1)
    IN IF at = 0 THEN [matched |-> FALSE, capture |-> <<>>]
       ELSE [matched |-> TRUE,
             capture |-> SubSeq(text, at + 1, IF stop = 0 THEN Len(text) ELSE stop - 1)]

\* analysisText.match(/KEY_INSIGHTS:(.*?)$/s)
LastSectionMatch(text, label) ==
    LET at == IndexFrom(text, label, 1)
    IN IF at = 0 THEN [matched |-> FALSE, capture |-> <<>>]
       ELSE [matched |-> TRUE, capture |-> SubSeq(text, at + 1, Len(text))]

RECURSIVE TrimStart(_)
TrimStart(s) ==
    IF s # <<>> /\ Head(s) \in WhiteChars THEN TrimStart(Tail(s)) ELSE s

RECURSIVE TrimEnd(_)
TrimEnd(s) ==
    IF s # <<>> /\ s[Len(s)] \in WhiteChars THEN TrimEnd(SubSeq(s, 1, Len(s) - 1)) ELSE s

\* String.prototype.trim
Trim(s) == TrimEnd(TrimStart(s))

RECURSIVE SplitOnReversed(_, _, _)
\* a split that gives the pieces in reverse order
SplitOnReversed(s, sep, cur) ==
    IF s = <<>> THEN <<cur>>
    ELSE IF Head(s) = sep THEN SplitOnReversed(Tail(s), sep, <<>>) \o <<cur>>
    ELSE SplitOnReversed(Tail(s), sep, Append(cur, Head(s)))

RECURSIVE SplitOn(_, _, _)
\* String.prototype.split(sep) for a one-character separator
SplitOn(s, sep, cur) ==
    IF s = <<>> THEN <<cur>>
    ELSE IF Head(s) = sep THEN <<cur>> \o SplitOn(Tail(s), sep, <<>>)
    ELSE SplitOn(Tail(s), sep, Append(cur, Head(s)))

MapTrim(ss) == [k \in 1..Len(ss) |-> Trim(ss[k])]
NonEmpty(ss) == SelectSeq(ss, LAMBDA x : Len(x) > 0)

Digits == <<"0", "1", "2", "3", "4", "5", "6", "7", "8", "9">>
IsDigit(c) == c \in Range(Digits)
DigitValue(c) == (CHOOSE d \in 1..10 : Digits[d] = c) - 1

RECURSIVE DigitsValue(_, _)
\* the value of the longest prefix of digits of s, read after acc
DigitsValue(s, acc) ==
    IF s # <<>> /\ IsDigit(Head(s))
    THEN DigitsValue(Tail(s), 10 * acc + DigitValue(Head(s)))
    ELSE acc

\* parseInt(str, 10): leading blanks, an optional sign, then digits; NaN when
\* no digit follows
parseInt(str) ==
    LET s == TrimStart(str)
        signed == s # <<>> /\ Head(s) \in {"-", "+"}
        body == IF signed THEN Tail(s) ELSE s
    IN IF body = <<>> \/ ~IsDigit(Head(body)) THEN [nan |-> TRUE, v |-> 0]
       ELSE [nan |-> FALSE,
             v |-> IF signed /\ Head(s) = "-" THEN 0 - DigitsValue(body, 0)
                   ELSE DigitsValue(body, 0)]

\* line.replace(/^-\s*/, '')
StripBullet(line) ==
    IF line # <<>> /\ Head(line) = "-" THEN TrimStart(Tail(line)) ELSE line

\* the characters of the words that the texts of the model hold as one piece;
\* of a piece of the document template, the characters that Markdown gives a
\* meaning to and the words between them
Spelling(piece) ==
    CASE piece = "positive" -> <<"p", "o", "s", "i", "t", "i", "v", "e">>
      [] piece = "## THREAD " -> <<"#", "#", " ", "THREAD", " ">>
      [] piece = ": " -> <<":", " ">>
      [] piece = "**Subject:** " -> <<"*", "*", "Subject:", "*", "*", " ">>
      [] piece = "**Content:**" -> <<"*", "*", "Content:", "*", "*">>
      [] piece = "**Attachments (" -> <<"*", "*", "Attachments", " ", "(">>
      [] piece = "):**" -> <<")", ":", "*", "*">>
      [] piece = "---" -> <<"-", "-", "-">>
      [] piece = "Positive" -> <<"P", "o", "s", "i", "t", "i", "v", "e">>
      [] piece = "negative" -> <<"n", "e", "g", "a", "t", "i", "v", "e">>
      [] piece = "NEGATIVE" -> <<"N", "E", "G", "A", "T", "I", "V", "E">>
      [] piece = "neutral" -> <<"n", "e", "u", "t", "r", "a", "l">>
      [] OTHER -> <<piece>>

RECURSIVE SpellOut(_)
SpellOut(s) == IF s = <<>> THEN <<>> ELSE Spelling(Head(s)) \o SpellOut(Tail(s))

\* a mapping that looks for "negative" before "positive"
SentimentScoreNegativeFirst(sentiment) ==
    LET lower == toLowerCase(SpellOut(sentiment))
    IN IF Includes(lower, Spelling("negative")) THEN [has |-> TRUE, score |-> 0 - 1]
       ELSE IF Includes(lower, Spelling("positive")) THEN [has |-> TRUE, score |-> 1]
       ELSE IF Includes(lower, Spelling("neutral")) THEN [has |-> TRUE, score |-> 0]
       ELSE [has |-> FALSE, score |-> 0]

\* the if / else if chain over sentiment.toLowerCase().includes(..): has tells
\* whether sentimentScore is assigned
SentimentScore(sentiment) ==
    LET lower == toLowerCase(SpellOut(sentiment))
    IN IF Includes(lower, Spelling("positive")) THEN [has |-> TRUE, score |-> 1]
       ELSE IF Includes(lower, Spelling("negative")) THEN [has |-> TRUE, score |-> 0 - 1]
       ELSE IF Includes(lower, Spelling("neutral")) THEN [has |-> TRUE, score |-> 0]
       ELSE [has |-> FALSE, score |-> 0]

parseAnalysisResponse(analysisText, thread) ==
    LET summaryMatch == SectionMatch(analysisText, LSummary, LTopics)
        topicsMatch == SectionMatch(analysisText, LTopics, LRelevance)
        topicsStr == IF topicsMatch.matched THEN Trim(topicsMatch.capture) ELSE <<>>
        relevanceMatch == SectionMatch(analysisText, LRelevance, LSentiment)
        relevanceStr == IF relevanceMatch.matched THEN Trim(relevanceMatch.capture)
                        ELSE <<"0">>
        parsed == parseInt(relevanceStr)
        sentimentMatch == SectionMatch(analysisText, LSentiment, LInsights)
        sentiment == IF sentimentMatch.matched THEN Trim(sentimentMatch.capture) ELSE <<>>
        insightsMatch == LastSectionMatch(analysisText, LInsights)
        insightsStr == IF insightsMatch.matched THEN Trim(insightsMatch.capture) ELSE <<>>
        lines == SplitOn(insightsStr, "\n", <<>>)
    IN [threadId |-> thread.threadId,
        subject |-> thread.subject,
        summary |-> IF summaryMatch.matched THEN Trim(summaryMatch.capture) ELSE <<>>,
        topics |-> NonEmpty(MapTrim(SplitOn(topicsStr, ",", <<>>))),
        relevanceScore |-> IF parsed.nan THEN 0 ELSE parsed.v,
        hasSentiment |-> SentimentScore(sentiment).has,
        sentimentScore |-> SentimentScore(sentiment).score,
        keyInsights |-> NonEmpty([k \in 1..Len(lines) |-> Trim(StripBullet(lines[k]))])]

(***************************************************************************)
(* ThreadAnalyzer.analyzeThread.  The completion call either rejects, or   *)
(* resolves with a response; a response may lack the choices array, may    *)
(* have no content, or carries a text.                                     *)
(***************************************************************************)
ErrorSummary == <<"Error analyzing this thread.">>

\* the object returned by the catch block
ErrorResult(thread) ==
    [threadId |-> thread.threadId,
     subject |-> thread.subject,
     summary |-> ErrorSummary,
     topics |-> <<>>,
     relevanceScore |-> 0,
     hasSentiment |-> FALSE,
     sentimentScore |-> 0,
     keyInsights |-> <<>>]

\* a catch block that reports the error and throws it again
RethrowOnError(thread, outcome) ==
    IF outcome.kind \in {"rejected", "nochoices"}
    THEN [threw |-> TRUE, result |-> ErrorResult(thread)]
    ELSE [threw |-> FALSE, result |-> parseAnalysisResponse(outcome.content, thread)]

\* what analyzeThread does once the completion call has settled: threw tells
\* whether the promise of analyzeThread rejects, result is what it resolves to
AnalyzeThreadSettled(thread, outcome) ==
    IF outcome.kind \in {"rejected", "nochoices"}
    THEN [threw |-> FALSE, result |-> ErrorResult(thread)]
    ELSE [threw |-> FALSE, result |-> parseAnalysisResponse(outcome.content, thread)]

(***************************************************************************)
(* ThreadAnalyzer.analyzeThreads.                                          *)
(***************************************************************************)
\* a batch one thread longer than batchSize
SliceOneMore(ts, from, batchSize) ==
    SubSeq(ts, from + 1, Min2(from + batchSize + 1, Len(ts)))

\* threads.slice(i, i + batchSize), for i >= 0 and batchSize >= 0
Slice(ts, from, batchSize) == SubSeq(ts, from + 1, Min2(from + batchSize, Len(ts)))

\* a Promise.all whose value leaves out the results of the failed calls
BatchResultsWithoutFailures(cs) ==
    SelectSeq([k \in 1..Len(cs) |-> cs[k].result], LAMBDA r : r.summary # ErrorSummary)

\* the value of Promise.all(batchPromises): the result of every analyzeThread
\* of the batch, in the order of the batch
BatchResults(cs) == [k \in 1..Len(cs) |-> cs[k].result]

\* results left in the order of the batches
ResultsUnsorted(rs) == rs

\* a descending sort that takes the results from the last to the first, so
\* that results of equal score come out in reverse
SortResultsTiesReversed(rs) ==
    SortBy(Reverse(rs), [k \in 1..Len(rs) |-> NegKey(NumKey(Reverse(rs)[k].relevanceScore))])

\* results.sort((a, b) => b.relevanceScore - a.relevanceScore)
SortResults(rs) ==
    SortBy(rs, [k \in 1..Len(rs) |-> NegKey(NumKey(rs[k].relevanceScore))])

RText75 ==
    <<LSummary, " ", "ok", "\n", LTopics, " ", "a", ",", " ", "b", "\n",
      LRelevance, " ", "7", "5", "\n", LSentiment, " ", "Positive", "\n",
      LInsights, "\n", "-", " ", "x", "\n", "-", " ", "y">>
RTextOnly75 == <<LRelevance, "7", "5">>
RText20 == <<LSummary, "ok", LRelevance, " ", "2", "0", "%", LSentiment, "NEGATIVE">>

Outcomes ==
    { [kind |-> "rejected", content |-> <<>>],
      [kind |-> "nochoices", content |-> <<>>],
      [kind |-> "text", content |-> <<>>],
      [kind |-> "text", content |-> RText75],
      [kind |-> "text", content |-> RTextOnly75],
      [kind |-> "text", content |-> RText20] }

NoOutcome == [kind |-> "none", content |-> <<>>]

AnalyzedPool ==
    Range(groupEmailsByThread(<< Variant(1, "t1", D1iso), Variant(2, "t2", D2iso) >>))

InitAnalyze ==
    /\ pc = "loop"
    /\ emails = <<>>
    /\ threads = <<>>
    /\ fargs = NoArgs
    /\ filtered = <<>>
    /\ aThreads \in SeqsUpTo(AnalyzedPool, MaxAnalyzed)
    /\ concurrency \in 0..MaxConcurrency
    /\ i = 0
    /\ calls = <<>>
    /\ results = <<>>
    /\ returned = <<>>
    /\ outOfOrder = FALSE
    /\ outcomes = <<>>
    /\ allEmails = <<>>
    /\ selectedThreads = <<>>
    /\ OPENAI_API_KEY = TRUE
    /\ documentContent = <<>>
    /\ htmlContent = <<>>
    /\ clock = 0
    /\ files = <<>>
    /\ requests = <<>>
    /\ responseText = <<>>
    /\ analysisResult = <<>>
    /\ known = <<>>

InFlight == { k \in 1..Len(calls) : calls[k].status = "inflight" }

\* one pass of the loop up to the await: batch.map(thread => this.analyzeThread(...))
\* runs every analyzeThread of the batch up to its completion call
StartBatch ==
    /\ pc = "loop"
    /\ i < Len(aThreads)
    /\ LET batch == Slice(aThreads, i, concurrency)
       IN calls' = [k \in 1..Len(batch) |->
                       [thread |-> batch[k], status |-> "inflight",
                        outcome |-> NoOutcome, threw |-> FALSE,
                        result |-> ErrorResult(batch[k])]]
    /\ pc' = "await"
    /\ UNCHANGED <<emails, threads, fargs, filtered, aThreads, concurrency, i,
                   results, returned, outOfOrder, outcomes, docVars, parseVars, serverVars>>

Settle(k, outcome) ==
    LET done == AnalyzeThreadSettled(calls[k].thread, outcome)
    IN /\ calls' = [calls EXCEPT ![k] =
                       [thread |-> calls[k].thread, status |-> "settled",
                        outcome |-> outcome, threw |-> done.threw,
                        result |-> done.result]]
       /\ outOfOrder' = (outOfOrder \/ \E h \in InFlight : h < k)
       \* Promise.all rejects as soon as one of its promises does
       /\ pc' = IF done.threw THEN "thrown" ELSE pc
       /\ UNCHANGED <<emails, threads, fargs, filtered, aThreads, concurrency, i,
                      results, returned, outcomes, docVars, parseVars, serverVars>>

\* the completion call of one analyzeThread of the batch resolves
CompletionResolves ==
    /\ pc = "await"
    /\ \E k \in InFlight :
          \E outcome \in { o \in Outcomes : o.kind # "rejected" } : Settle(k, outcome)

\* the completion call of one analyzeThread of the batch rejects
CompletionRejects ==
    /\ pc = "await"
    /\ \E k \in InFlight : Settle(k, [kind |-> "rejected", content |-> <<>>])

\* a loop that goes on to the next batch without the await
BatchDoneWithoutAwait ==
    /\ pc = "await"
    /\ results' = results \o BatchResults(calls)
    /\ outcomes' = outcomes \o [k \in 1..Len(calls) |-> calls[k].outcome]
    /\ i' = i + concurrency
    /\ calls' = <<>>
    /\ pc' = "loop"
    /\ UNCHANGED <<emails, threads, fargs, filtered, aThreads, concurrency,
                   returned, outOfOrder, docVars, parseVars, serverVars>>

\* await Promise.all(batchPromises); results.push(...batchResults); i += batchSize
BatchDone ==
    /\ pc = "await"
    /\ InFlight = {}
    /\ results' = results \o BatchResults(calls)
    /\ outcomes' = outcomes \o [k \in 1..Len(calls) |-> calls[k].outcome]
    /\ i' = i + concurrency
    /\ calls' = <<>>
    /\ pc' = "loop"
    /\ UNCHANGED <<emails, threads, fargs, filtered, aThreads, concurrency,
                   returned, outOfOrder, docVars, parseVars, serverVars>>

\* return results.sort(...)
ReturnResults ==
    /\ pc = "loop"
    /\ i >= Len(aThreads)
    /\ returned' = SortResults(results)
    /\ pc' = "done"
    /\ UNCHANGED <<emails, threads, fargs, filtered, aThreads, concurrency, i,
                   calls, results, outOfOrder, outcomes, docVars, parseVars, serverVars>>

NextAnalyze ==
    StartBatch \/ CompletionResolves \/ CompletionRejects \/ BatchDone \/ ReturnResults

SpecAnalyze == InitAnalyze /\ [][NextAnalyze]_vars

\* The event loop runs every continuation that is ready, and every completion
\* call that was dispatched settles in the end.
FairAnalyze ==
    /\ WF_vars(StartBatch)
    /\ WF_vars(CompletionResolves \/ CompletionRejects)
    /\ WF_vars(BatchDone)
    /\ WF_vars(ReturnResults)

SpecAnalyzeFair == InitAnalyze /\ [][NextAnalyze]_vars /\ FairAnalyze

(***************************************************************************)
(* Claims about analyzeThread and analyzeThreads.                          *)
(***************************************************************************)
\* C8: when the completion call fails, analyzeThread does not fail: it
\* resolves to a result with the summary "Error analyzing this thread.", no
\* topics, no key insights, relevanceScore 0, no sentimentScore, and the
\* threadId and subject of its thread.
C8_FailureGivesErrorResult ==
    /\ pc # "thrown"
    /\ \A k \in 1..Len(calls) :
          calls[k].outcome.kind = "rejected" =>
              /\ calls[k].status = "settled"
              /\ ~calls[k].threw
              /\ calls[k].result.summary = <<"Error analyzing this thread.">>
              /\ calls[k].result.topics = <<>>
              /\ calls[k].result.keyInsights = <<>>
              /\ calls[k].result.relevanceScore = 0
              /\ ~calls[k].result.hasSentiment
              /\ calls[k].result.threadId = calls[k].thread.threadId
              /\ calls[k].result.subject = calls[k].thread.subject

C8_Witness ==
    /\ pc = "await"
    /\ \E k, h \in 1..Len(calls) :
          /\ calls[k].outcome.kind = "rejected"
          /\ calls[h].outcome.kind = "text"
          /\ calls[h].result.relevanceScore > 0

\* C9: at every moment at most `concurrency` completion calls are dispatched
\* and not yet settled.
C9_InFlightAtMostConcurrency == Cardinality(InFlight) =< concurrency

C9_Witness ==
    /\ concurrency = 2
    /\ Len(aThreads) > concurrency
    /\ Cardinality(InFlight) = concurrency

\* C10: for a concurrency >= 1, analyzeThreads returns one result for every
\* input thread (as many results as threads, and a one-to-one assignment of
\* results to input positions with equal threadId and subject), in descending
\* order of relevanceScore, however the completion calls settle.
C10_OneResultPerThreadSorted ==
    (pc = "done" /\ concurrency >= 1) =>
        /\ Len(returned) = Len(aThreads)
        /\ \E p \in Perms(Len(aThreads)) :
              \A k \in 1..Len(returned) :
                  /\ returned[k].threadId = aThreads[p[k]].threadId
                  /\ returned[k].subject = aThreads[p[k]].subject
        /\ \A a, b \in 1..Len(returned) :
              a < b => returned[a].relevanceScore >= returned[b].relevanceScore

C10_Witness ==
    /\ pc = "done"
    /\ concurrency = 2
    /\ Len(returned) = 3
    /\ outOfOrder
    /\ returned[1].threadId # aThreads[1].threadId
    /\ returned[1].relevanceScore > returned[3].relevanceScore
    /\ \E k \in 1..3 : returned[k].summary = ErrorSummary

\* C11: a failing completion call never aborts analyzeThreads: whichever
\* threads have a failing call, the loop is never left by an exception and,
\* when analyzeThreads returns, the results it collected are, thread by
\* thread in input order, the degraded result for a thread whose call failed
\* and the result parsed from its own response for every other thread; the
\* returned list holds exactly these results.
Failed(outcome) == outcome.kind \in {"rejected", "nochoices"}

ExpectedResult(thread, outcome) ==
    IF Failed(outcome)
    THEN [threadId |-> thread.threadId, subject |-> thread.subject,
          summary |-> <<"Error analyzing this thread.">>, topics |-> <<>>,
          relevanceScore |-> 0, hasSentiment |-> FALSE, sentimentScore |-> 0,
          keyInsights |-> <<>>]
    ELSE parseAnalysisResponse(outcome.content, thread)

C11_FailuresNeverAbortTheBatch ==
    /\ pc # "thrown"
    /\ (pc = "done" /\ concurrency >= 1) =>
          /\ Len(outcomes) = Len(aThreads)
          /\ results = [k \in 1..Len(aThreads) |-> ExpectedResult(aThreads[k], outcomes[k])]
          /\ \E p \in Perms(Len(results)) :
                returned = [k \in 1..Len(results) |-> results[p[k]]]

C11_Witness ==
    /\ pc = "done"
    /\ Len(aThreads) = 3
    /\ concurrency = 2
    /\ Failed(outcomes[1])
    /\ ~Failed(outcomes[2]) /\ results[2].relevanceScore = 75
    /\ Failed(outcomes[3])
    /\ \E k \in 1..3 : outcomes[k].kind = "rejected"
    /\ \E k \in 1..3 : outcomes[k].kind = "nochoices"

\* C21: the calls that exist at any moment are those of one batch: the batch
\* that starts at i holds the input threads i .. i + concurrency - 1 in input
\* order, i is a multiple of concurrency, and when that batch is dispatched
\* every thread before i has its settled outcome and its result collected;
\* between two batches no call is in flight.
C21_BatchesInOrderAfterPreviousSettled ==
    /\ (concurrency >= 1 => i % concurrency = 0)
    /\ (pc = "loop" => calls = <<>>)
    /\ (pc = "await" =>
          /\ i < Len(aThreads)
          /\ Len(calls) = Min2(concurrency, Len(aThreads) - i)
          /\ \A k \in 1..Len(calls) : calls[k].thread = aThreads[i + k])
    /\ (pc \in {"loop", "await"} =>
          /\ Len(outcomes) = Min2(i, Len(aThreads))
          /\ Len(results) = Len(outcomes)
          /\ \A k \in 1..Len(outcomes) : outcomes[k].kind # "none")

C21_Witness ==
    /\ pc = "await"
    /\ concurrency = 2
    /\ i = 2
    /\ Len(aThreads) = 3
    /\ InFlight = {1}
    /\ outOfOrder

\* C28: analyzeThreads eventually returns, whatever the thread list and the
\* concurrency (0 included), when every dispatched completion call settles.
C28_EventuallyReturns == <>(pc = "done")

\* auxiliary: with a concurrency of at least 1 analyzeThreads returns
C28_ReturnsForPositiveConcurrency == (concurrency >= 1) => <>(pc = "done")

\* auxiliary: with concurrency 0 and a thread to analyze the loop never ends
C28_ZeroConcurrencyNeverReturns ==
    (concurrency = 0 /\ aThreads # <<>>) => [](pc # "done")

\* C29: the returned list is determined by the input order and the outcome
\* of each thread: it is the list of the results of the input threads, by
\* descending relevanceScore, results of equal score in the order of their
\* threads in the input, however the completion calls settled.
C29_ReturnedListIndependentOfSettleOrder ==
    pc = "done" =>
        /\ Len(outcomes) = Len(aThreads)
        /\ \E p \in Perms(Len(aThreads)) :
              /\ returned = [k \in 1..Len(aThreads) |->
                                 ExpectedResult(aThreads[p[k]], outcomes[p[k]])]
              /\ \A a, b \in 1..Len(aThreads) :
                    a < b =>
                        LET ra == ExpectedResult(aThreads[p[a]], outcomes[p[a]])
                            rb == ExpectedResult(aThreads[p[b]], outcomes[p[b]])
                        IN \/ ra.relevanceScore > rb.relevanceScore
                           \/ /\ ra.relevanceScore = rb.relevanceScore
                              /\ p[a] < p[b]

C29_Witness ==
    /\ pc = "done"
    /\ concurrency = 2
    /\ outOfOrder
    /\ Len(aThreads) = 3
    /\ aThreads[1].threadId # aThreads[2].threadId
    /\ results[1].relevanceScore = results[2].relevanceScore
    /\ results[3].relevanceScore > results[1].relevanceScore
    /\ returned[2].threadId = aThreads[1].threadId
    /\ returned[3].threadId = aThreads[2].threadId

(***************************************************************************)
(* generateCourtDocument (src/src/generate-court-doc.ts), called by the    *)
(* preview and generate handlers of the server.  A text is the sequence of *)
(* its pieces: the literal parts of the template, single characters of the *)
(* values, and "\n".                                                       *)
(***************************************************************************)
NL == "\n"

RECURSIVE NumStr(_)
\* `${n}` for an integer n >= 0
NumStr(n) ==
    IF n < 10 THEN <<Digits[n + 1]>>
    ELSE NumStr(n \div 10) \o <<Digits[(n % 10) + 1]>>

\* new Date(d).toLocaleString()
toLocaleString(d) ==
    IF isNaNDate(d) THEN "Invalid Date"
    ELSE IF getTime(d) = 10 THEN "1/1/2024, 10:00:00 AM"
    ELSE "1/2/2024, 10:00:00 AM"

\* new Date().toISOString() at the time of the run
NowIso == "2024-01-03T00:00:00.000Z"

RECURSIVE Join(_, _)
\* Array.prototype.join(sep)
Join(ss, sep) ==
    IF ss = <<>> THEN <<>>
    ELSE IF Len(ss) = 1 THEN ss[1]
    ELSE ss[1] \o sep \o Join(Tail(ss), sep)

RECURSIVE Flatten(_)
Flatten(ss) == IF ss = <<>> THEN <<>> ELSE Head(ss) \o Flatten(Tail(ss))

\* a header that counts the emails of the whole export file
DocumentHeaderOfExport(es, ts) ==
    <<"# EMAIL EVIDENCE DOCUMENT", NL, NL,
      "**Generated:** ", NowIso, NL,
      "**Total Emails:** ">> \o NumStr(Len(allEmails)) \o <<NL,
      "**Total Threads:** ">> \o NumStr(Len(ts)) \o <<NL, NL>>

DocumentHeader(es, ts) ==
    <<"# EMAIL EVIDENCE DOCUMENT", NL, NL,
      "**Generated:** ", NowIso, NL,
      "**Total Emails:** ">> \o NumStr(Len(es)) \o <<NL,
      "**Total Threads:** ">> \o NumStr(Len(ts)) \o <<NL, NL>>

ThreadHeading(n, thread) ==
    <<"## THREAD ">> \o NumStr(n) \o <<": ">> \o thread.subject \o <<NL, NL,
      "**Thread ID:** ", thread.threadId, NL,
      "**Date Range:** ", toLocaleString(thread.startDate), " to ",
      toLocaleString(thread.endDate), NL,
      "**Participants:** ">> \o Join(thread.participants, <<",", " ">>) \o <<NL,
      "**Message Count:** ">> \o NumStr(thread.messageCount) \o <<NL, NL>>

AnalysisUnavailable ==
    <<"### THREAD ANALYSIS", NL, NL, "*Analysis unavailable*", NL, NL>>

\* the try block and the catch block around analyzer.analyzeThread
ThreadAnalysis(done) ==
    IF done.threw THEN AnalysisUnavailable
    ELSE <<"### THREAD ANALYSIS", NL, NL,
           "**Summary:** ">> \o done.result.summary \o <<NL,
           "**Key Topics:** ">> \o Join(done.result.topics, <<",", " ">>) \o <<NL,
           "**Key Insights:**", NL>>
         \o Flatten([k \in 1..Len(done.result.keyInsights) |->
                        <<"-", " ">> \o done.result.keyInsights[k] \o <<NL>>])
         \o <<NL>>

AttachmentList(email) ==
    IF Len(email.attachments) > 0
    THEN <<"**Attachments (">> \o NumStr(Len(email.attachments)) \o <<"):**", NL>>
         \o Flatten([k \in 1..Len(email.attachments) |->
                        <<"-", " ">> \o email.attachments[k].filename \o <<" ", "(">>
                        \o email.attachments[k].mimeType \o <<")", NL>>])
         \o <<NL>>
    ELSE <<>>

\* email.body.plain || '[No plain text content available]'
PlainOrPlaceholder(email) ==
    IF email.body.hasPlain /\ email.body.plain # <<>> THEN email.body.plain
    ELSE <<"[No plain text content available]">>

\* the fence of three backquotes, written with quotes
Fence == "'''"

\* the block of a message from its subject line on
MessageContent(email) ==
    <<"**Subject:** ">> \o email.subject \o <<NL,
      NL, "**Content:**", NL, NL,
      Fence, NL>> \o PlainOrPlaceholder(email) \o <<NL, Fence, NL, NL>>
    \o AttachmentList(email)
    \o <<"---", NL, NL>>

EmailMessage(j, email) ==
    <<"#### MESSAGE ">> \o NumStr(j) \o <<NL, NL,
      "**Email ID:** ", email.id, NL,
      "**From:** ">> \o email.from \o <<NL,
      "**To:** ">> \o email.to \o <<NL,
      "**Date:** ", toLocaleString(email.date), NL>>
    \o MessageContent(email)

EmailMessages(thread) ==
    <<"### EMAIL MESSAGES", NL, NL>>
    \o Flatten([j \in 1..Len(thread.messages) |-> EmailMessage(j, thread.messages[j])])

LegalDisclaimer ==
    <<"## LEGAL DISCLAIMER", NL, NL,
      "This document was automatically generated and contains email evidence in a format suitable for ",
      "legal proceedings. All timestamps are shown in the local timezone at the time of document generation. ",
      "The content of the emails has not been altered from the original sources. ",
      "Any analysis provided is generated automatically and should be verified by qualified legal professionals.",
      NL>>

(***************************************************************************)
(* A preview or generate request: the export file holds allEmails, the     *)
(* request names selectedThreads.  Four kinds of message: a well-formed    *)
(* one, one with no subject, no plain body, no Date header and an          *)
(* attachment, a later well-formed one, and one without a body object.     *)
(***************************************************************************)
FileName == <<"f", ".", "t", "x", "t">>
MimeType == <<"text/plain">>

DocVariant(v, threadId) ==
    IF v = 1
    THEN EmailData("m1", threadId, SubjRe, AddrA, AddrB, D1iso, Plain(BodyQ))
    ELSE IF v = 2
    THEN WithAttachments(EmailData("m2", threadId, Empty, AddrB, Empty, DEmpty, NoPlain),
                         <<Attachment(FileName, MimeType)>>)
    ELSE IF v = 3
    THEN EmailData("m3", threadId, SubjReport, AddrC, AddrA, D2iso, Plain(BodyJohn))
    ELSE EmailData("m4", threadId, SubjRe, AddrB, AddrA, D1iso, NoBody)

DocThreadIds == <<"t1", "t2">>

DocPool == { DocVariant(v, DocThreadIds[t]) : v \in 1..4, t \in 1..Len(DocThreadIds) }

DocInputs == { es \in SeqsUpTo(DocPool, MaxDocEmails) : FirstOccurrenceOrder(es) }

\* the selections: every sequence of distinct thread ids
DocSelections ==
    { sel \in SeqsUpTo(Range(DocThreadIds), Len(DocThreadIds)) :
        \A a, b \in 1..Len(sel) : a # b => sel[a] # sel[b] }

DocOutcomes == { o \in Outcomes : o.kind = "rejected" \/ o.content = RText75 }

InitDoc ==
    /\ pc = "request"
    /\ emails = <<>>
    /\ threads = <<>>
    /\ fargs = NoArgs
    /\ filtered = <<>>
    /\ aThreads = <<>>
    /\ concurrency = 0
    /\ i = 0
    /\ calls = <<>>
    /\ results = <<>>
    /\ returned = <<>>
    /\ outOfOrder = FALSE
    /\ outcomes = <<>>
    /\ allEmails \in DocInputs
    /\ selectedThreads \in DocSelections
    /\ OPENAI_API_KEY \in BOOLEAN
    /\ documentContent = <<>>
    /\ htmlContent = <<>>
    /\ clock = 0
    /\ files = <<>>
    /\ requests = <<>>
    /\ responseText = <<>>
    /\ analysisResult = <<>>
    /\ known = <<>>

\* the handler up to its call of generateCourtDocument: the emails of the
\* selected threads are written to the temporary file that readJson then reads
PreviewRequest ==
    /\ pc = "request"
    /\ emails' = SelectSeq(allEmails, LAMBDA email :
                              \E k \in 1..Len(selectedThreads) :
                                  selectedThreads[k] = email.threadId)
    /\ pc' = "read"
    /\ UNCHANGED <<threads, fargs, filtered, aThreads, concurrency, i, calls, results,
                   returned, outOfOrder, outcomes, docVars, parseVars, serverVars>>

\* if (emails.length === 0) { ...; process.exit(1); }
ReadInput ==
    /\ pc = "read"
    /\ pc' = IF Len(emails) = 0 THEN "exit" ELSE "group"
    /\ UNCHANGED <<emails, threads, fargs, filtered, aThreads, concurrency, i, calls,
                   results, returned, outOfOrder, outcomes, docVars, parseVars, serverVars>>

\* groupEmailsByThread and the head of the document
GroupThreads ==
    /\ pc = "group"
    /\ threads' = groupEmailsByThread(emails)
    /\ documentContent' = DocumentHeader(emails, groupEmailsByThread(emails))
    /\ i' = 0
    /\ pc' = "threads"
    /\ UNCHANGED <<emails, fargs, filtered, aThreads, concurrency, calls, results,
                   returned, outOfOrder, outcomes, allEmails, selectedThreads,
                   OPENAI_API_KEY, parseVars, serverVars>>

\* message.body.plain (generateThreadText) and email.body.plain
\* (generateCourtDocument) throw a TypeError when the record has no body
BodyAccessThrows(thread) ==
    \E j \in 1..Len(thread.messages) : thread.messages[j].body.undefined

\* analyzer.analyzeThread(thread, ...): generateThreadText runs before the
\* try block of analyzeThread, so its TypeError rejects the promise; otherwise
\* the promise settles as the completion call lets it
AnalyzeThread(thread, outcome) ==
    IF BodyAccessThrows(thread) THEN [threw |-> TRUE, result |-> ErrorResult(thread)]
    ELSE AnalyzeThreadSettled(thread, outcome)

\* one pass of the loop over the threads; with an analyzer the pass awaits
\* analyzeThread, whose completion call settles in one of the outcomes.  A
\* TypeError in the loop over the messages reaches the catch block of
\* generateCourtDocument, which ends the process; the text built so far is
\* never written.
ProcessThread ==
    /\ pc = "threads"
    /\ i < Len(threads)
    /\ \E outcome \in (IF OPENAI_API_KEY THEN DocOutcomes ELSE {NoOutcome}) :
          LET thread == threads[i + 1]
              done == AnalyzeThread(thread, outcome)
          IN /\ IF BodyAccessThrows(thread)
                THEN /\ pc' = "exit"
                     /\ documentContent' =
                            documentContent \o ThreadHeading(i + 1, thread)
                            \o (IF OPENAI_API_KEY THEN ThreadAnalysis(done) ELSE <<>>)
                ELSE /\ pc' = pc
                     /\ documentContent' =
                            documentContent \o ThreadHeading(i + 1, thread)
                            \o (IF OPENAI_API_KEY THEN ThreadAnalysis(done) ELSE <<>>)
                            \o EmailMessages(thread)
             /\ outcomes' = Append(outcomes, outcome)
    /\ i' = i + 1
    /\ UNCHANGED <<emails, threads, fargs, filtered, aThreads, concurrency, calls,
                   results, returned, outOfOrder, allEmails, selectedThreads,
                   OPENAI_API_KEY, parseVars, serverVars>>

\* the footer; the text is written to the output file and its path returned
WriteDocument ==
    /\ pc = "threads"
    /\ i >= Len(threads)
    /\ documentContent' = documentContent \o LegalDisclaimer
    /\ pc' = "returned"
    /\ UNCHANGED <<emails, threads, fargs, filtered, aThreads, concurrency, i, calls,
                   results, returned, outOfOrder, outcomes, allEmails, selectedThreads,
                   OPENAI_API_KEY, parseVars, serverVars>>

NextDoc == PreviewRequest \/ ReadInput \/ GroupThreads \/ ProcessThread \/ WriteDocument

SpecDoc == InitDoc /\ [][NextDoc]_vars

(***************************************************************************)
(* Claims about the generated document.  The document is read back by the  *)
(* literal pieces of its template: a thread section runs from its          *)
(* "## THREAD " to the piece before the next one, the last section to the  *)
(* piece before the disclaimer; the value of a label is what follows it up *)
(* to the end of the line.                                                 *)
(***************************************************************************)
Positions(piece) == { k \in 1..Len(documentContent) : documentContent[k] = piece }

\* the n-th smallest element of a set of numbers
Nth(S, n) == CHOOSE k \in S : Cardinality({ h \in S : h < k }) = n - 1

SectionCount == Cardinality(Positions("## THREAD "))

\* the last position of section n
SectionEnd(n) ==
    IF n < SectionCount THEN Nth(Positions("## THREAD "), n + 1) - 1
    ELSE IF Positions("## LEGAL DISCLAIMER") # {}
         THEN Nth(Positions("## LEGAL DISCLAIMER"), 1) - 1
    ELSE Len(documentContent)

\* the positions of section n
SectionRange(n) == Nth(Positions("## THREAD "), n)..SectionEnd(n)

HasLine(range, label) == \E k \in range : documentContent[k] = label

\* the value printed after the first occurrence of the label in the range
ValueIn(range, label) ==
    LET at == Nth({ k \in range : documentContent[k] = label }, 1)
        end == CHOOSE k \in (at + 1)..Len(documentContent) :
                   /\ documentContent[k] = NL
                   /\ \A h \in (at + 1)..(k - 1) : documentContent[h] # NL
    IN SubSeq(documentContent, at + 1, end - 1)

Whole == 1..Len(documentContent)

SectionNumber(n) == DigitsValue(ValueIn(SectionRange(n), "## THREAD "), 0)
SectionSubject(n) ==
    LET line == ValueIn(SectionRange(n), "## THREAD ")
    IN SubSeq(line, IndexFrom(line, ": ", 1) + 1, Len(line))
SectionThreadId(n) == ValueIn(SectionRange(n), "**Thread ID:** ")[1]
SectionMessageCount(n) == DigitsValue(ValueIn(SectionRange(n), "**Message Count:** "), 0)

InExport(threadId) == \E k \in 1..Len(allEmails) : allEmails[k].threadId = threadId

RECURSIVE SumTo(_, _)
SumTo(f, n) == IF n = 0 THEN 0 ELSE f[n] + SumTo(f, n - 1)

\* C12: the thread sections of the document come in the order in which the
\* request selected the threads (the selected threads that the export
\* holds, in selection order), and are numbered 1..n.
C12_SectionsInSelectionOrder ==
    pc = "returned" =>
        /\ [n \in 1..SectionCount |-> SectionThreadId(n)]
               = SelectSeq(selectedThreads, InExport)
        /\ \A n \in 1..SectionCount : SectionNumber(n) = n

\* auxiliary: the part of C12 that holds, the numbering 1..n
C12_NumberedConsecutively ==
    pc = "returned" => \A n \in 1..SectionCount : SectionNumber(n) = n

\* C13: generation over an empty set of emails completes normally with a
\* document that reports 0 emails and 0 threads, holds the legal disclaimer
\* and has no thread section.
C13_EmptyInputGivesDocument ==
    (pc \in {"exit", "returned"} /\ emails = <<>>) =>
        /\ pc = "returned"
        /\ ValueIn(Whole, "**Total Emails:** ") = <<"0">>
        /\ ValueIn(Whole, "**Total Threads:** ") = <<"0">>
        /\ Positions("## LEGAL DISCLAIMER") # {}
        /\ SectionCount = 0

\* C14: when analysis is requested and the completion call of a thread
\* fails, the section of that thread holds the marker "*Analysis
\* unavailable*" and no summary, topics or insights.
C14_FailedAnalysisIsMarkedUnavailable ==
    (pc = "returned" /\ OPENAI_API_KEY) =>
        \A n \in 1..SectionCount :
            Failed(outcomes[n]) =>
                /\ HasLine(SectionRange(n), "*Analysis unavailable*")
                /\ ~HasLine(SectionRange(n), "**Summary:** ")
                /\ ~HasLine(SectionRange(n), "**Key Topics:** ")
                /\ ~HasLine(SectionRange(n), "**Key Insights:**")

\* C15: the heading of a thread with an empty subject shows "(No subject)",
\* the heading of any other thread shows its subject.
C15_EmptySubjectShowsPlaceholder ==
    pc = "returned" =>
        \A n \in 1..SectionCount :
            SectionSubject(n) = IF threads[n].subject = <<>> THEN <<"(No subject)">>
                                ELSE threads[n].subject

\* auxiliary: the part of C15 that holds, the heading of a thread with a subject
C15_SubjectShown ==
    pc = "returned" =>
        \A n \in 1..SectionCount :
            threads[n].subject # <<>> => SectionSubject(n) = threads[n].subject

\* C16: the total email count of the header is the sum of the message counts
\* of the thread sections of the document, and the total thread count is
\* the number of thread sections.
C16_HeaderTotalsMatchSections ==
    pc \in {"threads", "returned"} /\ (pc = "threads" => i = Len(threads)) =>
        /\ DigitsValue(ValueIn(Whole, "**Total Emails:** "), 0)
              = SumTo([n \in 1..SectionCount |-> SectionMessageCount(n)],
                      SectionCount)
        /\ DigitsValue(ValueIn(Whole, "**Total Threads:** "), 0)
              = SectionCount
        /\ \A n \in 1..SectionCount :
              SectionMessageCount(n)
                = Cardinality(Positions("#### MESSAGE ") \cap SectionRange(n))

C16_Witness ==
    /\ pc = "returned"
    /\ SectionCount = 2
    /\ Len(emails) = 3
    /\ \E n \in 1..2 : SectionMessageCount(n) = 2

\* the positions of message j of section n
MessageRange(n, j) ==
    LET starts == Positions("#### MESSAGE ") \cap SectionRange(n)
        first == Nth(starts, j)
        last == IF j < Cardinality(starts) THEN Nth(starts, j + 1) - 1
                ELSE SectionEnd(n)
    IN first..last

\* what stands between the two fences of a message
FencedContent(range) ==
    LET fences == Positions(Fence) \cap range
    IN SubSeq(documentContent, Nth(fences, 1) + 2, Nth(fences, 2) - 2)

Malformed(email) == isNaNDate(email.date) \/ ~email.body.hasPlain

\* every message of every thread has its block in the document, with its id,
\* sender, date (or "Invalid Date"), subject and body (or the placeholder)
EveryMessageHasItsBlock ==
    /\ SectionCount = Len(threads)
    /\ Cardinality(Positions("#### MESSAGE ")) = Len(emails)
    /\ \A n \in 1..Len(threads) :
          /\ SectionThreadId(n) = threads[n].threadId
          /\ Cardinality(Positions("#### MESSAGE ") \cap SectionRange(n))
                = Len(threads[n].messages)
          /\ \A j \in 1..Len(threads[n].messages) :
                LET email == threads[n].messages[j]
                    range == MessageRange(n, j)
                IN /\ ValueIn(range, "#### MESSAGE ") = NumStr(j)
                   /\ ValueIn(range, "**Email ID:** ") = <<email.id>>
                   /\ ValueIn(range, "**From:** ") = email.from
                   /\ ValueIn(range, "**Subject:** ") = email.subject
                   /\ ValueIn(range, "**Date:** ")
                         = <<IF isNaNDate(email.date) THEN "Invalid Date"
                             ELSE toLocaleString(email.date)>>
                   /\ FencedContent(range)
                         = IF email.body.hasPlain THEN email.body.plain
                           ELSE <<"[No plain text content available]">>

\* C19: a message with a missing body or an unparseable date never stops
\* the generation: whenever the input holds a message, generation returns a
\* document (it does not end in process.exit), and the document has one
\* section per thread and in it one block per message.
C19_MalformedInputIsIsolated ==
    /\ (pc = "exit" => emails = <<>>)
    /\ (pc = "returned" => EveryMessageHasItsBlock)

\* auxiliary: the part of C19 that holds: when every record has its body
\* object, a missing plain text or an unparseable date does not stop the
\* generation
C19_PlainAbsentOrBadDateIsIsolated ==
    (\A k \in 1..Len(emails) : ~emails[k].body.undefined) =>
        C19_MalformedInputIsIsolated

(***************************************************************************)
(* Unparseable dates in groupEmailsByThread.                               *)
(***************************************************************************)
\* C20: groupEmailsByThread returns also when a date does not parse, and the
\* messages of every thread are then in ascending order of their dates with
\* an unparseable date counting as the lowest value: the messages with
\* unparseable dates first, the others after them in ascending order.
C20_UnparseableDatesSortLowest ==
    pc = "grouped" =>
        \A n \in 1..Len(threads) :
            \A a, b \in 1..Len(threads[n].messages) :
                a < b => TimeOrLowest(threads[n].messages[a].date)
                           =< TimeOrLowest(threads[n].messages[b].date)

\* auxiliary: the part of C20 that holds, grouping returns one thread per
\* threadId whatever the dates are
C20_GroupingReturns ==
    pc = "grouped" =>
        /\ Len(threads) = Len(MapKeys(emails, <<>>))
        /\ \A n \in 1..Len(threads) : threads[n].messageCount = Len(InputOf(threads[n].threadId))

(***************************************************************************)
(* parseAnalysisResponse on arbitrary response texts: a text is a sequence *)
(* of at most MaxPieces pieces, a piece being a section label or a short   *)
(* run of characters.                                                      *)
(***************************************************************************)
Labels == {LSummary, LTopics, LRelevance, LSentiment, LInsights}

Pieces ==
    { <<l>> : l \in Labels }
    \cup { <<" ", "7", "5">>, <<"x">>, <<"a", ",", " ", "b", "\n">>,
           <<"-", " ", "y">>, <<"Positive">> }

ParseInputs == { Flatten(ps) : ps \in SeqsUpTo(Pieces, MaxPieces) }

\* the thread argument of parseAnalysisResponse
ParsedThread == groupEmailsByThread(<<Variant(1, "t1", D1iso)>>)[1]

InitParse ==
    /\ pc = "parse"
    /\ emails = <<>>
    /\ threads = <<>>
    /\ fargs = NoArgs
    /\ filtered = <<>>
    /\ aThreads = <<>>
    /\ concurrency = 0
    /\ i = 0
    /\ calls = <<>>
    /\ results = <<>>
    /\ returned = <<>>
    /\ outOfOrder = FALSE
    /\ outcomes = <<>>
    /\ allEmails = <<>>
    /\ selectedThreads = <<>>
    /\ OPENAI_API_KEY = TRUE
    /\ documentContent = <<>>
    /\ htmlContent = <<>>
    /\ clock = 0
    /\ files = <<>>
    /\ requests = <<>>
    /\ responseText \in ParseInputs
    /\ analysisResult = <<>>
    /\ known = <<>>

\* const result = this.parseAnalysisResponse(analysisText, thread)
ParseResponse ==
    /\ pc = "parse"
    /\ analysisResult' = parseAnalysisResponse(responseText, ParsedThread)
    /\ pc' = "parsed"
    /\ UNCHANGED <<emails, threads, fargs, filtered, aThreads, concurrency, i, calls,
                   results, returned, outOfOrder, outcomes, docVars, responseText, known, serverVars>>

NextParse == ParseResponse

SpecParse == InitParse /\ [][NextParse]_vars

Occurs(label) == \E k \in 1..Len(responseText) : responseText[k] = label

\* what follows the first occurrence of the label, up to the end of the text
After(label) ==
    LET at == CHOOSE k \in 1..Len(responseText) :
                  /\ responseText[k] = label
                  /\ \A h \in 1..(k - 1) : responseText[h] # label
    IN SubSeq(responseText, at + 1, Len(responseText))

\* the value of RELEVANCE_SCORE: what follows the label up to SENTIMENT: or
\* the end of the text
RelevanceValue ==
    LET rest == After(LRelevance)
        stop == IndexFrom(rest, LSentiment, 1)
    IN IF stop = 0 THEN rest ELSE SubSeq(rest, 1, stop - 1)

NonNumeric(value) == \A k \in 1..Len(value) : ~IsDigit(value[k])

\* C17: for every response text, parseAnalysisResponse returns a result, and
\* every section label that does not occur in the text yields its default:
\* summary the empty string, topics the empty list, relevanceScore 0,
\* sentimentScore absent, keyInsights the empty list; a RELEVANCE_SCORE value
\* without a digit also yields relevanceScore 0.
C17_MissingSectionsYieldDefaults ==
    pc = "parsed" =>
        /\ analysisResult.threadId = ParsedThread.threadId
        /\ ~Occurs(LSummary) => analysisResult.summary = <<>>
        /\ ~Occurs(LTopics) => analysisResult.topics = <<>>
        /\ ~Occurs(LRelevance) => analysisResult.relevanceScore = 0
        /\ ~Occurs(LSentiment) => ~analysisResult.hasSentiment
        /\ ~Occurs(LInsights) => analysisResult.keyInsights = <<>>
        /\ (Occurs(LRelevance) /\ NonNumeric(RelevanceValue))
               => analysisResult.relevanceScore = 0

C17_Witness ==
    /\ pc = "parsed"
    /\ ~Occurs(LSummary)
    /\ ~Occurs(LTopics)
    /\ Occurs(LRelevance) /\ NonNumeric(RelevanceValue) /\ RelevanceValue # <<>>
    /\ ~Occurs(LInsights)
    /\ Occurs(LSentiment) /\ analysisResult.hasSentiment

LabelOrder == <<LSummary, LTopics, LRelevance, LSentiment, LInsights>>

LabelRank(label) == CHOOSE r \in 1..Len(LabelOrder) : LabelOrder[r] = label

\* the labels of the text occur at most once each and in the order of the
\* prompt
LabelsOnceInOrder ==
    \A a, b \in 1..Len(responseText) :
        (a < b /\ responseText[a] \in Labels /\ responseText[b] \in Labels)
            => LabelRank(responseText[a]) < LabelRank(responseText[b])

\* the labels that occur are neighbours in the order of the prompt
PresentLabelsAdjacent ==
    \A r, q \in 1..Len(LabelOrder) :
        (r < q /\ Occurs(LabelOrder[r]) /\ Occurs(LabelOrder[q]))
            => \A m \in r..q : Occurs(LabelOrder[m])

\* what follows the first occurrence of the label, up to the next label of
\* the text, whichever it is, or to the end of the text
SectionText(label) ==
    LET rest == After(label)
        stops == { k \in 1..Len(rest) : rest[k] \in Labels }
    IN IF stops = {} THEN rest
       ELSE SubSeq(rest, 1, (CHOOSE k \in stops : \A h \in stops : k =< h) - 1)

\* C24: in a response whose labels come in the order of the prompt, the value
\* of every section that occurs is read from the text between its label and
\* the next label that occurs (or the end of the text), also when a label in
\* between is absent.
C24_SectionEndsAtNextLabelPresent ==
    (pc = "parsed" /\ LabelsOnceInOrder) =>
        /\ Occurs(LSummary) =>
              analysisResult.summary = Trim(SectionText(LSummary))
        /\ Occurs(LTopics) =>
              analysisResult.topics
                = NonEmpty(MapTrim(SplitOn(Trim(SectionText(LTopics)), ",", <<>>)))
        /\ Occurs(LRelevance) =>
              analysisResult.relevanceScore
                = (IF parseInt(Trim(SectionText(LRelevance))).nan THEN 0
                   ELSE parseInt(Trim(SectionText(LRelevance))).v)
        /\ Occurs(LSentiment) =>
              analysisResult.hasSentiment
                = (\E w \in {"positive", "negative", "neutral"} :
                      Includes(toLowerCase(SpellOut(SectionText(LSentiment))),
                               Spelling(w)))

\* auxiliary: the claim holds of the responses in which no label is missing
\* between two labels that occur
C24_HoldsWithoutGaps ==
    PresentLabelsAdjacent => C24_SectionEndsAtNextLabelPresent

(***************************************************************************)
(* Synthetic response texts: the five labelled sections in order, built    *)
(* from known values.  A value is a plain text, without blanks at its ends *)
(* and without line breaks or labels; a topic holds no comma.  The         *)
(* layout varies: a blank or nothing after a label, a line break or a      *)
(* blank between sections, "," or ", " between topics.                     *)
(***************************************************************************)
KnownSummaries == { <<"ok">>, <<"all", " ", "good">> }
KnownTopics == { <<"a">>, <<"b", " ", "c">> }
KnownScores == {0, 7, 75, 100}
KnownSentiments == {"positive", "Positive", "negative", "NEGATIVE", "neutral"}
KnownInsights == { <<"x">>, <<"-", "w">> }
Layouts ==
    [gap : {<<>>, <<" ">>}, sep : {<<"\n">>, <<" ">>}, comma : {<<",">>, <<",", " ">>}]

KnownValues ==
    [summary : KnownSummaries,
     topics : SeqsUpTo(KnownTopics, MaxItems),
     score : KnownScores,
     sentiment : KnownSentiments,
     insights : SeqsUpTo(KnownInsights, MaxItems),
     layout : Layouts]

BuildResponse(v) ==
    <<LSummary>> \o v.layout.gap \o v.summary \o v.layout.sep
    \o <<LTopics>> \o v.layout.gap \o Join(v.topics, v.layout.comma) \o v.layout.sep
    \o <<LRelevance>> \o v.layout.gap \o NumStr(v.score) \o v.layout.sep
    \o <<LSentiment>> \o v.layout.gap \o <<v.sentiment>> \o v.layout.sep
    \o <<LInsights>> \o <<"\n">>
    \o Join([k \in 1..Len(v.insights) |-> <<"-", " ">> \o v.insights[k]], <<"\n">>)

InitRoundTrip ==
    /\ pc = "parse"
    /\ emails = <<>>
    /\ threads = <<>>
    /\ fargs = NoArgs
    /\ filtered = <<>>
    /\ aThreads = <<>>
    /\ concurrency = 0
    /\ i = 0
    /\ calls = <<>>
    /\ results = <<>>
    /\ returned = <<>>
    /\ outOfOrder = FALSE
    /\ outcomes = <<>>
    /\ allEmails = <<>>
    /\ selectedThreads = <<>>
    /\ OPENAI_API_KEY = TRUE
    /\ documentContent = <<>>
    /\ htmlContent = <<>>
    /\ clock = 0
    /\ files = <<>>
    /\ requests = <<>>
    /\ known \in KnownValues
    /\ responseText = BuildResponse(known)
    /\ analysisResult = <<>>

SpecRoundTrip == InitRoundTrip /\ [][NextParse]_vars

SentimentOf(keyword) ==
    IF keyword \in {"positive", "Positive"} THEN 1
    ELSE IF keyword \in {"negative", "NEGATIVE"} THEN 0 - 1
    ELSE 0

\* C18: from a response text built from the five labelled sections in order
\* with known values, parseAnalysisResponse recovers the summary, the topics
\* in their order, the score, the score of the sentiment keyword (1, -1, 0),
\* and the insights in their order without the bullet markers.
C18_RoundTripRecoversValues ==
    pc = "parsed" =>
        /\ analysisResult.summary = known.summary
        /\ analysisResult.topics = known.topics
        /\ analysisResult.relevanceScore = known.score
        /\ analysisResult.hasSentiment
        /\ analysisResult.sentimentScore = SentimentOf(known.sentiment)
        /\ analysisResult.keyInsights = known.insights

C18_Witness ==
    /\ pc = "parsed"
    /\ Len(analysisResult.topics) = 2 /\ analysisResult.topics[1] # analysisResult.topics[2]
    /\ analysisResult.relevanceScore = 75
    /\ analysisResult.sentimentScore = 0 - 1
    /\ Len(analysisResult.keyInsights) = 2
    /\ analysisResult.keyInsights[1] = <<"-", "w">>
    /\ analysisResult.keyInsights[2] = <<"x">>
    /\ known.layout.sep = <<" ">>

(***************************************************************************)
(* Response texts around a RELEVANCE_SCORE value: the value is a run of    *)
(* at most MaxScoreLen characters, alone or between other sections.        *)
(***************************************************************************)
ScoreChars == {"0", "1", "5", "9", " ", "-", "%", "x"}
ScoreValues == SeqsUpTo(ScoreChars, MaxScoreLen)
ScorePrefixes == { <<>>, <<LSummary, " ", "ok", "\n">> }
ScoreSuffixes == { <<>>, <<"\n", LSentiment, " ", "neutral">> }

ScoreInputs ==
    { pre \o <<LRelevance>> \o v \o suf :
        pre \in ScorePrefixes, v \in ScoreValues, suf \in ScoreSuffixes }

InitScore ==
    /\ pc = "parse"
    /\ emails = <<>>
    /\ threads = <<>>
    /\ fargs = NoArgs
    /\ filtered = <<>>
    /\ aThreads = <<>>
    /\ concurrency = 0
    /\ i = 0
    /\ calls = <<>>
    /\ results = <<>>
    /\ returned = <<>>
    /\ outOfOrder = FALSE
    /\ outcomes = <<>>
    /\ allEmails = <<>>
    /\ selectedThreads = <<>>
    /\ OPENAI_API_KEY = TRUE
    /\ documentContent = <<>>
    /\ htmlContent = <<>>
    /\ clock = 0
    /\ files = <<>>
    /\ requests = <<>>
    /\ responseText \in ScoreInputs
    /\ analysisResult = <<>>
    /\ known = <<>>

SpecScore == InitScore /\ [][NextParse]_vars

\* C23: for every response text the relevanceScore of the result is an integer
\* from 0 to 100.
C23_RelevanceScoreInRange ==
    pc = "parsed" => analysisResult.relevanceScore \in 0..100

\* auxiliary: the score is the integer that the value starts with, whatever
\* its size or sign, and 0 when the value does not start with an integer
C23_ScoreIsTheLeadingInteger ==
    pc = "parsed" =>
        LET value == TrimStart(RelevanceValue)
            digitsFrom(k) ==
                CHOOSE n \in 0..Len(value) :
                    /\ \A h \in k..(k + n - 1) : h =< Len(value) /\ IsDigit(value[h])
                    /\ (k + n =< Len(value) => ~IsDigit(value[k + n]))
                    /\ k + n - 1 =< Len(value)
            signed == value # <<>> /\ value[1] \in {"-", "+"}
            from == IF signed THEN 2 ELSE 1
            n == digitsFrom(from)
            magnitude == DigitsValue(SubSeq(value, from, from + n - 1), 0)
        IN analysisResult.relevanceScore
             = IF n = 0 THEN 0
               ELSE IF signed /\ value[1] = "-" THEN 0 - magnitude ELSE magnitude

(***************************************************************************)
(* Response texts with a KEY_INSIGHTS section of two lines, a line being   *)
(* a run of at most MaxLineLen characters out of hyphen, blank and letter. *)
(***************************************************************************)
InsightChars == {"-", " ", "x"}
InsightLines == SeqsUpTo(InsightChars, MaxLineLen)

InsightInputs ==
    { <<LInsights>> \o first \o <<"\n">> \o second :
        first \in InsightLines, second \in InsightLines }

InitInsights ==
    /\ pc = "parse"
    /\ emails = <<>>
    /\ threads = <<>>
    /\ fargs = NoArgs
    /\ filtered = <<>>
    /\ aThreads = <<>>
    /\ concurrency = 0
    /\ i = 0
    /\ calls = <<>>
    /\ results = <<>>
    /\ returned = <<>>
    /\ outOfOrder = FALSE
    /\ outcomes = <<>>
    /\ allEmails = <<>>
    /\ selectedThreads = <<>>
    /\ OPENAI_API_KEY = TRUE
    /\ documentContent = <<>>
    /\ htmlContent = <<>>
    /\ clock = 0
    /\ files = <<>>
    /\ requests = <<>>
    /\ responseText \in InsightInputs
    /\ analysisResult = <<>>
    /\ known = <<>>

SpecInsights == InitInsights /\ [][NextParse]_vars

\* the lines of the KEY_INSIGHTS text
InsightTextLines ==
    LET text == After(LInsights)
        breaks == { k \in 1..Len(text) : text[k] = "\n" }
        bounds == <<0>> \o [n \in 1..Cardinality(breaks) |-> Nth(breaks, n)]
                       \o <<Len(text) + 1>>
    IN [n \in 1..(Len(bounds) - 1) |-> SubSeq(text, bounds[n] + 1, bounds[n + 1] - 1)]

\* a line, trimmed, without one leading "- " when it has one
WithoutBulletMarker(line) ==
    LET t == Trim(line)
    IN IF Len(t) >= 2 /\ t[1] = "-" /\ t[2] = " "
       THEN Trim(SubSeq(t, 3, Len(t)))
       ELSE t

\* C25: keyInsights holds, in order, the lines of the KEY_INSIGHTS text, each
\* trimmed and without one leading "- " marker (also when blanks come before
\* the marker; a hyphen with no blank after it stays), empty lines dropped.
C25_InsightsLoseOneBulletMarker ==
    pc = "parsed" =>
        analysisResult.keyInsights
          = SelectSeq([n \in 1..Len(InsightTextLines) |->
                          WithoutBulletMarker(InsightTextLines[n])],
                      LAMBDA line : line # <<>>)

\* auxiliary: what the code does: a line loses a hyphen at its very start and
\* the blanks after it, and is then trimmed; the text as a whole is trimmed
\* first
C25_HyphenAtLineStartIsStripped ==
    pc = "parsed" =>
        LET text == Trim(After(LInsights))
            breaks == { k \in 1..Len(text) : text[k] = "\n" }
            bounds == <<0>> \o [n \in 1..Cardinality(breaks) |-> Nth(breaks, n)]
                           \o <<Len(text) + 1>>
            lines == [n \in 1..(Len(bounds) - 1) |->
                         SubSeq(text, bounds[n] + 1, bounds[n + 1] - 1)]
            stripped(line) ==
                IF line # <<>> /\ line[1] = "-"
                THEN Trim(SubSeq(line, 2, Len(line))) ELSE Trim(line)
        IN analysisResult.keyInsights
             = SelectSeq([n \in 1..Len(lines) |-> stripped(lines[n])],
                         LAMBDA line : line # <<>>)

(***************************************************************************)
(* Response texts with a SENTIMENT section made of at most MaxWords        *)
(* pieces: the keywords in several spellings, halves of a keyword, a       *)
(* prefix, a blank, a letter.                                              *)
(***************************************************************************)
SentimentPieces ==
    { <<"p", "o", "s", "i", "t", "i", "v", "e">>,
      <<"N", "e", "g", "a", "t", "i", "v", "e">>,
      <<"N", "E", "U", "T", "R", "A", "L">>,
      <<"P", "o", "s", "i">>,
      <<"t", "i", "v", "e">>,
      <<"n", "o", "n">>,
      <<" ">>,
      <<"x">> }

SentimentSuffixes == { <<>>, <<"\n", LInsights, "-", " ", "x">> }

SentimentInputs ==
    { <<LSentiment>> \o Flatten(ps) \o suf :
        ps \in SeqsUpTo(SentimentPieces, MaxWords), suf \in SentimentSuffixes }

InitSentiment ==
    /\ pc = "parse"
    /\ emails = <<>>
    /\ threads = <<>>
    /\ fargs = NoArgs
    /\ filtered = <<>>
    /\ aThreads = <<>>
    /\ concurrency = 0
    /\ i = 0
    /\ calls = <<>>
    /\ results = <<>>
    /\ returned = <<>>
    /\ outOfOrder = FALSE
    /\ outcomes = <<>>
    /\ allEmails = <<>>
    /\ selectedThreads = <<>>
    /\ OPENAI_API_KEY = TRUE
    /\ documentContent = <<>>
    /\ htmlContent = <<>>
    /\ clock = 0
    /\ files = <<>>
    /\ requests = <<>>
    /\ responseText \in SentimentInputs
    /\ analysisResult = <<>>
    /\ known = <<>>

SpecSentiment == InitSentiment /\ [][NextParse]_vars

\* the capital and the small form of the letters of the keywords
CasePairs ==
    { <<"A", "a">>, <<"E", "e">>, <<"G", "g">>, <<"I", "i">>, <<"L", "l">>,
      <<"N", "n">>, <<"O", "o">>, <<"P", "p">>, <<"R", "r">>, <<"S", "s">>,
      <<"T", "t">>, <<"U", "u">>, <<"V", "v">> }

SameLetter(c, d) == c = d \/ <<c, d>> \in CasePairs \/ <<d, c>> \in CasePairs

\* the word occurs in the text, in whatever case
ContainsIgnoringCase(text, word) ==
    \E k \in 1..(Len(text) - Len(word) + 1) :
        \A j \in 1..Len(word) : SameLetter(text[k + j - 1], word[j])

\* C26: sentimentScore is 1 when the SENTIMENT text contains "positive" in
\* whatever case; otherwise -1 when it contains "negative"; otherwise 0 when
\* it contains "neutral"; otherwise it is absent.
C26_FirstMatchingKeywordWins ==
    pc = "parsed" =>
        LET text == SectionText(LSentiment)
            positive == <<"p", "o", "s", "i", "t", "i", "v", "e">>
            negative == <<"n", "e", "g", "a", "t", "i", "v", "e">>
            neutral == <<"n", "e", "u", "t", "r", "a", "l">>
        IN IF ContainsIgnoringCase(text, positive)
           THEN analysisResult.hasSentiment /\ analysisResult.sentimentScore = 1
           ELSE IF ContainsIgnoringCase(text, negative)
           THEN analysisResult.hasSentiment /\ analysisResult.sentimentScore = 0 - 1
           ELSE IF ContainsIgnoringCase(text, neutral)
           THEN analysisResult.hasSentiment /\ analysisResult.sentimentScore = 0
           ELSE ~analysisResult.hasSentiment

\* "Negative" comes first in the text, "positive" is spelled across two
\* pieces, and the score is 1
C26_Witness ==
    /\ pc = "parsed"
    /\ SectionText(LSentiment)
         = <<"N", "e", "g", "a", "t", "i", "v", "e">>
           \o <<"P", "o", "s", "i">> \o <<"t", "i", "v", "e">>
    /\ analysisResult.hasSentiment
    /\ analysisResult.sentimentScore = 1

(***************************************************************************)
(* markdownToHtml (generateCourtDocument).  The Markdown text is taken     *)
(* character by character; the fence of three backquotes is one piece, and *)
(* so is every HTML tag that a replacement puts in.  The replacements run  *)
(* one after the other over the whole text.                                *)
(***************************************************************************)
StartsWith(s, t) == Len(s) >= Len(t) /\ SubSeq(s, 1, Len(t)) = t

\* .replace(/^MARKER (.+)$/gm, '<hN>$1</hN>'): a line that starts with the
\* marker and a blank and goes on with at least one character
HeaderLine(line, marker, open, close) ==
    IF StartsWith(line, marker \o <<" ">>) /\ Len(line) > Len(marker) + 1
    THEN <<open>> \o SubSeq(line, Len(marker) + 2, Len(line)) \o <<close>>
    ELSE line

ReplaceHeaders(md, marker, open, close) ==
    LET lines == SplitOn(md, "\n", <<>>)
    IN Join([k \in 1..Len(lines) |-> HeaderLine(lines[k], marker, open, close)],
            <<"\n">>)

\* the least q >= from at which the piece sequence t starts in s, with no line
\* break in s between from - 1 and q when sameLine holds; 0 when there is none
FirstAt(s, t, from, sameLine) ==
    LET found == { q \in from..(Len(s) - Len(t) + 1) :
                     /\ SubSeq(s, q, q + Len(t) - 1) = t
                     /\ (sameLine => \A h \in (from - 1)..(q - 1) : s[h] # "\n") }
    IN IF found = {} THEN 0 ELSE CHOOSE q \in found : \A h \in found : q =< h

RECURSIVE ReplaceBold(_)
\* .replace(/\*\*(.+?)\*\*/g, '<strong>$1</strong>')
ReplaceBold(s) ==
    IF Len(s) < 2 THEN s
    ELSE LET q == IF StartsWith(s, <<"*", "*">>)
                  THEN FirstAt(s, <<"*", "*">>, 4, TRUE) ELSE 0
         IN IF q > 0
            THEN <<"<strong>">> \o SubSeq(s, 3, q - 1) \o <<"</strong>">>
                 \o ReplaceBold(SubSeq(s, q + 2, Len(s)))
            ELSE <<Head(s)>> \o ReplaceBold(Tail(s))

RECURSIVE ReplaceCode(_)
\* .replace(/FENCE([\s\S]*?)FENCE/g, '<code>$1</code>')
ReplaceCode(s) ==
    IF s = <<>> THEN s
    ELSE LET q == IF Head(s) = Fence THEN FirstAt(s, <<Fence>>, 2, FALSE) ELSE 0
         IN IF q > 0
            THEN <<"<code>">> \o SubSeq(s, 2, q - 1) \o <<"</code>">>
                 \o ReplaceCode(SubSeq(s, q + 1, Len(s)))
            ELSE <<Head(s)>> \o ReplaceCode(Tail(s))

RECURSIVE ReplaceAll(_, _, _)
\* .replace(/LITERAL/g, tag) for a literal pattern
ReplaceAll(s, pattern, tag) ==
    IF s = <<>> THEN s
    ELSE IF StartsWith(s, pattern)
    THEN <<tag>> \o ReplaceAll(SubSeq(s, Len(pattern) + 1, Len(s)), pattern, tag)
    ELSE <<Head(s)>> \o ReplaceAll(Tail(s), pattern, tag)

RECURSIVE ReplaceList(_)
\* .replace(/- (.+)$/gm, '<li>$1</li>'): the first "- " of a line that has a
\* character after it, wherever in the line it stands, and the rest of the line
ReplaceList(s) ==
    IF s = <<>> THEN s
    ELSE IF StartsWith(s, <<"-", " ">>) /\ Len(s) >= 3 /\ s[3] # "\n"
    THEN LET nl == FirstAt(s, <<"\n">>, 3, FALSE)
             end == IF nl = 0 THEN Len(s) ELSE nl - 1
         IN <<"<li>">> \o SubSeq(s, 3, end) \o <<"</li>">>
            \o ReplaceList(SubSeq(s, end + 1, Len(s)))
    ELSE <<Head(s)>> \o ReplaceList(Tail(s))

markdownToHtml(md) ==
    LET h1 == ReplaceHeaders(md, <<"#">>, "<h1>", "</h1>")
        h2 == ReplaceHeaders(h1, <<"#", "#">>, "<h2>", "</h2>")
        h3 == ReplaceHeaders(h2, <<"#", "#", "#">>, "<h3>", "</h3>")
        h4 == ReplaceHeaders(h3, <<"#", "#", "#", "#">>, "<h4>", "</h4>")
        bold == ReplaceBold(h4)
        code == ReplaceCode(bold)
        breaks == ReplaceAll(code, <<"\n", "\n">>, "<br><br>")
        rules == ReplaceAll(breaks, <<"-", "-", "-">>, "<hr>")
    IN ReplaceList(rules)

(***************************************************************************)
(* Markdown texts to convert: the heading of a thread and the block of its *)
(* message from the subject line on, as generateCourtDocument writes them, *)
(* for a subject and a plain body of at most MaxBodyLines lines.           *)
(***************************************************************************)
HtmlSubjects == { <<"x">>, <<"a", " ", "-", " ", "b">> }

HtmlBodyLines ==
    { <<"x">>, <<"#", " ", "x">>, <<"*", "*", "x", "*", "*">>, <<"-", "-", "-">>,
      <<"-", " ", "x">>, <<"a", " ", "-", " ", "b">> }

HtmlBodies ==
    { Join(ls, <<NL>>) : ls \in SeqsUpTo(HtmlBodyLines, MaxBodyLines) \ {<<>>} }

HtmlEmails ==
    { WithAttachments(EmailData("m1", "t1", subject, AddrA, AddrB, D1iso, Plain(body)),
                      attachments) :
        subject \in HtmlSubjects, body \in HtmlBodies,
        attachments \in { <<>>, <<Attachment(FileName, MimeType)>> } }

InitHtml ==
    /\ pc = "html"
    /\ emails \in { <<e>> : e \in HtmlEmails }
    /\ threads = <<>>
    /\ fargs = NoArgs
    /\ filtered = <<>>
    /\ aThreads = <<>>
    /\ concurrency = 0
    /\ i = 0
    /\ calls = <<>>
    /\ results = <<>>
    /\ returned = <<>>
    /\ outOfOrder = FALSE
    /\ outcomes = <<>>
    /\ allEmails = <<>>
    /\ selectedThreads = <<>>
    /\ OPENAI_API_KEY = FALSE
    /\ documentContent =
          SpellOut(<<"## THREAD ", "1", ": ">> \o emails[1].subject \o <<NL, NL>>
                   \o MessageContent(emails[1]))
    /\ htmlContent = <<>>
    /\ clock = 0
    /\ files = <<>>
    /\ requests = <<>>
    /\ responseText = <<>>
    /\ analysisResult = <<>>
    /\ known = <<>>

\* htmlContent += markdownToHtml(documentContent)
ConvertToHtml ==
    /\ pc = "html"
    /\ htmlContent' = markdownToHtml(documentContent)
    /\ pc' = "converted"
    /\ UNCHANGED <<emails, threads, fargs, filtered, aThreads, concurrency, i, calls,
                   results, returned, outOfOrder, outcomes, docVars, parseVars,
                   clock, files, requests>>

NextHtml == ConvertToHtml

SpecHtml == InitHtml /\ [][NextHtml]_vars

\* the lines of the Markdown text
MarkdownLines == SplitOn(documentContent, NL, <<>>)

HtmlCount(tag) == Cardinality({ k \in 1..Len(htmlContent) : htmlContent[k] = tag })

\* C27: the conversion makes a <li> element of a line only when the line
\* starts with "- ": the HTML holds as many <li> as the Markdown text has
\* lines that start with "- " and go on, a "- " further in a line gives none.
C27_ListItemOnlyAtLineStart ==
    pc = "converted" =>
        HtmlCount("<li>")
          = Cardinality({ k \in 1..Len(MarkdownLines) :
                            /\ StartsWith(MarkdownLines[k], <<"-", " ">>)
                            /\ Len(MarkdownLines[k]) > 2 })

\* auxiliary: a text without "- " gets no <li>
C27_NoListMarkerNoItem ==
    (pc = "converted" /\ ~Includes(documentContent, <<"-", " ">>)) =>
        HtmlCount("<li>") = 0

\* C30: the plain body of the message stands unaltered in the HTML, between
\* the tags of its code block.
C30_BodyUnalteredInHtml ==
    pc = "converted" =>
        Includes(htmlContent,
                 <<"<code>", NL>> \o emails[1].body.plain \o <<NL, "</code>">>)

\* auxiliary: a body without Markdown markers stands unaltered when no line
\* before it holds a "- "
C30_PlainBodyUnaltered ==
    (/\ pc = "converted"
     /\ ~Includes(emails[1].subject, <<"-", " ">>)
     /\ \A k \in 1..Len(emails[1].body.plain) : emails[1].body.plain[k] \in {"x", NL}) =>
        Includes(htmlContent,
                 <<"<code>", NL>> \o emails[1].body.plain \o <<NL, "</code>">>)

(***************************************************************************)
(* Two requests to /api/preview or /api/generate handled by one server     *)
(* process.  Each await of a handler, and of generateCourtDocument under   *)
(* it, is a point where the other request may run.  Date.now() and         *)
(* new Date() read the clock, which moves on between steps or does not:    *)
(* two reads within one millisecond give the same value.  No analyzer (the *)
(* API key is not set), Markdown output.                                   *)
(***************************************************************************)
\* generateCourtDocument without an analyzer, from the emails it has read
DocumentWithoutAnalyzer(es) ==
    LET ts == groupEmailsByThread(es)
    IN DocumentHeader(es, ts)
       \o Flatten([n \in 1..Len(ts) |-> ThreadHeading(n, ts[n]) \o EmailMessages(ts[n])])
       \o LegalDisclaimer

\* allEmails.filter(email => selectedThreads.includes(email.threadId))
FilterSelected(es, selection) ==
    SelectSeq(es, LAMBDA email :
                     \E k \in 1..Len(selection) : selection[k] = email.threadId)

\* path.join(.., `temp-${Date.now()}.json`)
TempPath(time) == <<"temp-", time, ".json">>

\* path.join(inputDir, `court-document-${timestamp}.${extension}`)
OutputPath(time) == <<"court-document-", time, ".md">>

\* outputPath.replace(/\.(md|pdf)$/, '.html')
HtmlPath(outputPath) == <<outputPath[1], outputPath[2], ".html">>

\* fs.writeFile / fs.writeJSON: the file is created or replaced
WriteFile(fs, path, content) ==
    [p \in DOMAIN fs \cup {path} |-> IF p = path THEN content ELSE fs[p]]

\* fs.remove: no error when the file is not there
RemoveFile(fs, path) == [p \in DOMAIN fs \ {path} |-> fs[p]]

ExportFile == << DocVariant(1, "t1"), DocVariant(3, "t2") >>

RequestKinds == {"preview", "generate"}

NewRequest(kind, selection) ==
    [kind |-> kind, selectedThreads |-> selection, pc |-> "received",
     tempJsonPath |-> <<>>, emails |-> <<>>, outputPath |-> <<>>,
     documentContent |-> <<>>, markdownContent |-> <<>>, answer |-> <<>>]

InitRequests ==
    /\ pc = "serving"
    /\ emails = <<>>
    /\ threads = <<>>
    /\ fargs = NoArgs
    /\ filtered = <<>>
    /\ aThreads = <<>>
    /\ concurrency = 0
    /\ i = 0
    /\ calls = <<>>
    /\ results = <<>>
    /\ returned = <<>>
    /\ outOfOrder = FALSE
    /\ outcomes = <<>>
    /\ allEmails = ExportFile
    /\ selectedThreads = <<>>
    /\ OPENAI_API_KEY = FALSE
    /\ documentContent = <<>>
    /\ htmlContent = <<>>
    /\ clock = 0
    /\ files = <<>>
    /\ \E k1, k2 \in RequestKinds :
          \E s1, s2 \in DocSelections \ {<<>>} :
              /\ s1 # s2
              /\ requests = <<NewRequest(k1, s1), NewRequest(k2, s2)>>
    /\ responseText = <<>>
    /\ analysisResult = <<>>
    /\ known = <<>>

serverFrame ==
    <<emails, threads, fargs, filtered, aThreads, concurrency, i, calls, results,
      returned, outOfOrder, outcomes, docVars, parseVars, htmlContent>>

\* time passes
Tick ==
    /\ pc = "serving"
    /\ clock < MaxClock
    /\ clock' = clock + 1
    /\ UNCHANGED <<pc, serverFrame, files, requests>>

\* await fs.readJSON(filePath) returns: the emails of the selected threads
\* are filtered and the temporary path is made from Date.now()
ReadExport(r) ==
    /\ pc = "serving"
    /\ requests[r].pc = "received"
    /\ requests' = [requests EXCEPT
                       ![r].emails = FilterSelected(allEmails, requests[r].selectedThreads),
                       ![r].tempJsonPath = TempPath(clock),
                       ![r].pc = "filtered"]
    /\ UNCHANGED <<pc, serverFrame, clock, files>>

\* await fs.writeJSON(tempJsonPath, { emails: filteredEmails })
WriteTemp(r) ==
    /\ pc = "serving"
    /\ requests[r].pc = "filtered"
    /\ files' = WriteFile(files, requests[r].tempJsonPath, requests[r].emails)
    /\ requests' = [requests EXCEPT ![r].pc = "tempWritten"]
    /\ UNCHANGED <<pc, serverFrame, clock>>

\* generateCourtDocument: await fs.readJson(inputJsonPath) returns or throws;
\* on an error or on no emails the process exits; otherwise the output path
\* is made from new Date() and the document is built
ReadTemp(r) ==
    /\ pc = "serving"
    /\ requests[r].pc = "tempWritten"
    /\ IF requests[r].tempJsonPath \notin DOMAIN files
       THEN pc' = "exit" /\ UNCHANGED requests
       ELSE LET es == files[requests[r].tempJsonPath]
            IN IF Len(es) = 0
               THEN pc' = "exit" /\ UNCHANGED requests
               ELSE /\ pc' = pc
                    /\ requests' = [requests EXCEPT
                                       ![r].outputPath = OutputPath(clock),
                                       ![r].documentContent = DocumentWithoutAnalyzer(es),
                                       ![r].pc = "built"]
    /\ UNCHANGED <<serverFrame, clock, files>>

\* await fs.writeFile(htmlPath, htmlContent): the file holds the HTML made of
\* the document, noted here by the document it was made of
WriteHtml(r) ==
    /\ pc = "serving"
    /\ requests[r].pc = "built"
    /\ files' = WriteFile(files, HtmlPath(requests[r].outputPath),
                          <<"<html>">> \o requests[r].documentContent)
    /\ requests' = [requests EXCEPT ![r].pc = "htmlWritten"]
    /\ UNCHANGED <<pc, serverFrame, clock>>

\* await fs.writeFile(outputPath, documentContent); return outputPath
WriteMarkdown(r) ==
    /\ pc = "serving"
    /\ requests[r].pc = "htmlWritten"
    /\ files' = WriteFile(files, requests[r].outputPath, requests[r].documentContent)
    /\ requests' = [requests EXCEPT ![r].pc = "written"]
    /\ UNCHANGED <<pc, serverFrame, clock>>

\* preview: await fs.readFile(outputPath, 'utf8')
ReadOutput(r) ==
    /\ pc = "serving"
    /\ requests[r].pc = "written"
    /\ requests[r].kind = "preview"
    /\ requests' = [requests EXCEPT
                       ![r].markdownContent = files[requests[r].outputPath],
                       ![r].pc = "read"]
    /\ UNCHANGED <<pc, serverFrame, clock, files>>

\* await fs.remove(tempJsonPath)
RemoveTemp(r) ==
    /\ pc = "serving"
    /\ \/ requests[r].pc = "read"
       \/ requests[r].pc = "written" /\ requests[r].kind = "generate"
    /\ files' = RemoveFile(files, requests[r].tempJsonPath)
    /\ requests' = [requests EXCEPT ![r].pc = "removed"]
    /\ UNCHANGED <<pc, serverFrame, clock>>

\* res.json({ preview: markdownContent }) or res.json({ .., outputPath, .. })
Respond(r) ==
    /\ pc = "serving"
    /\ requests[r].pc = "removed"
    /\ requests' = [requests EXCEPT
                       ![r].answer = IF requests[r].kind = "preview"
                                     THEN requests[r].markdownContent
                                     ELSE requests[r].outputPath,
                       ![r].pc = "answered"]
    /\ UNCHANGED <<pc, serverFrame, clock, files>>

NextRequests ==
    \/ Tick
    \/ \E r \in 1..2 : ReadExport(r)
    \/ \E r \in 1..2 : WriteTemp(r)
    \/ \E r \in 1..2 : ReadTemp(r)
    \/ \E r \in 1..2 : WriteHtml(r)
    \/ \E r \in 1..2 : WriteMarkdown(r)
    \/ \E r \in 1..2 : ReadOutput(r)
    \/ \E r \in 1..2 : RemoveTemp(r)
    \/ \E r \in 1..2 : Respond(r)

SpecRequests == InitRequests /\ [][NextRequests]_vars

\* the document of the selection of request r
OwnDocument(r) ==
    DocumentWithoutAnalyzer(FilterSelected(allEmails, requests[r].selectedThreads))

\* the document that the answer of request r gives: the preview text, or the
\* text of the file at the returned path
AnsweredDocument(r) ==
    IF requests[r].kind = "preview" THEN requests[r].answer
    ELSE files[requests[r].answer]

\* C22: two requests with different selections do not touch each other's
\* files: the process is never ended, the temporary file of a request holds
\* the emails of its own selection until the request has read it, the output
\* file of a request holds its own document, and each answer gives the
\* document of its own selection.
C22_ConcurrentRequestsAreIsolated ==
    /\ pc # "exit"
    /\ \A r \in 1..Len(requests) :
          /\ requests[r].pc = "tempWritten" =>
                /\ requests[r].tempJsonPath \in DOMAIN files
                /\ files[requests[r].tempJsonPath] = requests[r].emails
          /\ requests[r].pc \in {"written", "read", "removed", "answered"} =>
                files[requests[r].outputPath] = OwnDocument(r)
          /\ requests[r].pc = "answered" => AnsweredDocument(r) = OwnDocument(r)

\* auxiliary: the requests are isolated whenever the clock gave them
\* different file names
C22_IsolatedWithDistinctNames ==
    (/\ \A r \in 1..Len(requests) : requests[r].pc # "received"
     /\ \A r, q \in 1..Len(requests) :
           r # q => /\ requests[r].tempJsonPath # requests[q].tempJsonPath
                    /\ (requests[r].outputPath = <<>>
                        \/ requests[r].outputPath # requests[q].outputPath))
        => C22_ConcurrentRequestsAreIsolated

====
